---- MODULE Spec2Model ----
(***************************************************************************)
(* PIAS inventory analysis: column resolver, data cleaner, metric engine   *)
(* and the upload request that chains them.                                *)
(*                                                                         *)
(*   src/analysis/data_processor.py   DataProcessor                        *)
(*   src/analysis/calculations.py     InventoryCalculations                *)
(*   src/api.py                       upload_csv                           *)
(*                                                                         *)
(* Header and cell texts are TLA+ strings; Len, SubSeq and \o act on them  *)
(* character by character.  Floating point values are exact rationals      *)
(* extended with NaN and +inf (rounding is not modelled).                  *)
(***************************************************************************)
EXTENDS Integers, Sequences, FiniteSets, TLC

VARIABLES
    file,           \* the uploaded CSV as pd.read_csv sees it
    frames,         \* the DataFrame objects alive in the request, by reference
    df,             \* reference of the frame read by process_csv (0: none)
    df_clean,       \* reference of the frame returned by clean_data (0: none)
    calc_df,        \* reference of InventoryCalculations.df (0: none)
    columns,        \* df.columns.tolist(): the uploaded header list
    columns_map,    \* the one columns_map dict shared by processor, endpoint and engine
    validation,     \* result of validate_required_columns
    log,            \* the stages invoked so far, in call order
    error,          \* the exception in flight or handled
    response,       \* the HTTP response of upload_csv
    session,        \* the row of the upload's session id in the session store
    result,         \* what the latest call on an engine object returned
    requests,       \* the /api/filter-products requests in flight
    pc              \* position of the request

vars == <<file, frames, df, df_clean, calc_df, columns, columns_map, validation,
          log, error, response, session, result, requests, pc>>

None == "<None>"

(***************************************************************************)
(* Bounds                                                                  *)
(***************************************************************************)
MaxHeaders == 4

(***************************************************************************)
(* Text helpers (Python str methods)                                       *)
(***************************************************************************)
UpperChars == <<"A","B","C","D","E","F","G","H","I","J","K","L","M",
                "N","O","P","Q","R","S","T","U","V","W","X","Y","Z">>
LowerChars == <<"a","b","c","d","e","f","g","h","i","j","k","l","m",
                "n","o","p","q","r","s","t","u","v","w","x","y","z">>

\* str.lower() on one character
LowerChar(c) ==
    IF \E i \in 1..26 : UpperChars[i] = c
    THEN LowerChars[CHOOSE i \in 1..26 : UpperChars[i] = c]
    ELSE c

RECURSIVE Lower(_)
\* str.lower()
Lower(s) ==
    IF Len(s) = 0 THEN ""
    ELSE LowerChar(SubSeq(s, 1, 1)) \o Lower(SubSeq(s, 2, Len(s)))

IsSpace(c) == c \in {" ", "\t", "\n", "\r"}

RECURSIVE LStrip(_)
LStrip(s) ==
    IF Len(s) = 0 THEN ""
    ELSE IF IsSpace(SubSeq(s, 1, 1)) THEN LStrip(SubSeq(s, 2, Len(s)))
    ELSE s

RECURSIVE RStrip(_)
RStrip(s) ==
    IF Len(s) = 0 THEN ""
    ELSE IF IsSpace(SubSeq(s, Len(s), Len(s))) THEN RStrip(SubSeq(s, 1, Len(s) - 1))
    ELSE s

\* str.strip()
Strip(s) == RStrip(LStrip(s))

\* Python's `sub in s` on strings
Contains(sub, s) ==
    \E i \in 0..(Len(s) - Len(sub)) : SubSeq(s, i + 1, i + Len(sub)) = sub

RECURSIVE SplitFrom(_, _, _)
SplitFrom(s, i, cur) ==
    IF i > Len(s) THEN <<cur>>
    ELSE IF SubSeq(s, i, i) = "_" THEN <<cur>> \o SplitFrom(s, i + 1, "")
    ELSE SplitFrom(s, i + 1, cur \o SubSeq(s, i, i))

\* str.split('_')
SplitUnderscore(s) == SplitFrom(s, 1, "")

(***************************************************************************)
(* Column resolver: keyword table of detect_columns                        *)
(***************************************************************************)
Fields == <<"name", "category", "stock", "sales", "reorder", "price",
            "supplier", "lead_time", "max_stock", "turnover">>

FieldSet == {Fields[i] : i \in 1..Len(Fields)}

column_keywords ==
    [name |-> <<"name", "product", "item", "description", "title", "product_name",
                "item_name", "prod_name", "sku", "code", "id">>,
     category |-> <<"category", "catagory", "cat", "type", "class", "group", "segment",
                    "product_category", "item_category", "classification">>,
     stock |-> <<"stock", "inventory", "quantity", "qty", "current_stock",
                 "on_hand", "available", "balance", "units", "count", "level",
                 "current_quantity", "stock_level", "inventory_level">>,
     sales |-> <<"sales", "sold", "volume", "demand", "usage", "consumption",
                 "monthly_sales", "sales_volume", "units_sold", "turnover_qty",
                 "demand_qty", "usage_rate", "monthly_demand">>,
     reorder |-> <<"reorder", "reorder_level", "reorder_point", "min_stock",
                   "minimum", "safety_stock", "threshold", "trigger_level",
                   "min_level", "reorder_qty", "minimum_stock">>,
     price |-> <<"price", "cost", "unit_price", "unit_cost", "value", "amount",
                 "rate", "price_per_unit", "cost_per_unit", "unit_value">>,
     supplier |-> <<"supplier", "vendor", "source", "provider", "manufacturer",
                    "supplier_name", "vendor_name", "supplier_id">>,
     lead_time |-> <<"lead_time", "leadtime", "delivery_time", "order_time",
                     "procurement_time", "lead_days">>,
     max_stock |-> <<"max_stock", "maximum", "max_level", "maximum_stock",
                     "max_quantity", "upper_limit", "ceiling">>]

turnover_keywords == <<"turnover", "turns", "rotation", "velocity", "frequency">>

KeywordsOf(f) == IF f = "turnover" THEN turnover_keywords ELSE column_keywords[f]

inventory_terms == <<"qty", "amount", "level", "count", "volume", "units">>

(***************************************************************************)
(* float64 values: exact rationals n/d (d > 0, lowest terms), NaN, +-inf   *)
(***************************************************************************)
RECURSIVE Gcd(_, _)
Gcd(a, b) == IF b = 0 THEN a ELSE Gcd(b, a % b)

IAbs(x) == IF x < 0 THEN -x ELSE x

\* the rational n/d in lowest terms, d # 0
Num(n, d) ==
    LET g == Gcd(IAbs(n), IAbs(d))
        sg == IF d < 0 THEN -1 ELSE 1
    IN  [k |-> "num", n |-> sg * (n \div g), d |-> sg * (d \div g), s |-> ""]

I(n) == [k |-> "num", n |-> n, d |-> 1, s |-> ""]
NaN == [k |-> "nan", n |-> 0, d |-> 1, s |-> ""]
Inf(sign) == [k |-> "inf", n |-> sign, d |-> 1, s |-> ""]
\* an object (str) cell
Text(str) == [k |-> "text", n |-> 0, d |-> 1, s |-> str]

IsNum(x) == x.k = "num"
IsNaN(x) == x.k = "nan"
IsInf(x) == x.k = "inf"
Sign(x) == IF x.n > 0 THEN 1 ELSE IF x.n < 0 THEN -1 ELSE 0

FAdd(a, b) ==
    IF IsNaN(a) \/ IsNaN(b) THEN NaN
    ELSE IF IsInf(a) /\ IsInf(b) THEN (IF a.n = b.n THEN a ELSE NaN)
    ELSE IF IsInf(a) THEN a
    ELSE IF IsInf(b) THEN b
    ELSE Num(a.n * b.d + b.n * a.d, a.d * b.d)

FNeg(a) == IF IsNaN(a) THEN NaN ELSE [a EXCEPT !.n = -a.n]

FSub(a, b) == FAdd(a, FNeg(b))

FMul(a, b) ==
    IF IsNaN(a) \/ IsNaN(b) THEN NaN
    ELSE IF IsInf(a) \/ IsInf(b)
         THEN (IF Sign(a) * Sign(b) = 0 THEN NaN ELSE Inf(Sign(a) * Sign(b)))
    ELSE Num(a.n * b.n, a.d * b.d)

\* IEEE division: 0/0 and inf/inf are NaN, x/0 is +-inf
FDiv(a, b) ==
    IF IsNaN(a) \/ IsNaN(b) THEN NaN
    ELSE IF IsInf(a) THEN (IF IsInf(b) THEN NaN
                           ELSE Inf(IF Sign(b) < 0 THEN -a.n ELSE a.n))
    ELSE IF IsInf(b) THEN I(0)
    ELSE IF b.n = 0 THEN (IF a.n = 0 THEN NaN ELSE Inf(Sign(a)))
    ELSE Num(a.n * b.d, a.d * b.n)

FAbs(a) == IF IsNaN(a) THEN NaN ELSE [a EXCEPT !.n = IAbs(a.n)]

\* a < b on floats: every comparison with NaN is False
FLt(a, b) ==
    IF IsNaN(a) \/ IsNaN(b) THEN FALSE
    ELSE IF IsInf(a) THEN a.n < 0 /\ ~(IsInf(b) /\ b.n < 0)
    ELSE IF IsInf(b) THEN b.n > 0
    ELSE a.n * b.d < b.n * a.d

FEq(a, b) == ~IsNaN(a) /\ ~IsNaN(b) /\ a = b

FLe(a, b) == FLt(a, b) \/ FEq(a, b)

FGt(a, b) == FLt(b, a)

\* np.minimum: NaN if either operand is NaN
FMinimum(a, b) ==
    IF IsNaN(a) \/ IsNaN(b) THEN NaN
    ELSE IF FLt(b, a) THEN b ELSE a

(***************************************************************************)
(* pandas DataFrame: ordered headers, row labels, one record of cells per  *)
(* row                                                                     *)
(***************************************************************************)
Frame(cols, index, data) == [columns |-> cols, index |-> index, data |-> data]

NRows(t) == Len(t.data)

HasColumn(t, h) == \E i \in 1..Len(t.columns) : t.columns[i] = h

\* df[h] as a sequence of cells
Col(t, h) == [i \in 1..NRows(t) |-> t.data[i][h]]

\* df[h] = vals, for an existing or a new column
SetCol(t, h, vals) ==
    [t EXCEPT !.columns = IF HasColumn(t, h) THEN @ ELSE Append(@, h),
              !.data = [i \in 1..NRows(t) |->
                           [x \in (DOMAIN t.data[i]) \cup {h} |->
                               IF x = h THEN vals[i] ELSE t.data[i][x]]]]

\* df[mask]: the rows whose position is listed, labels kept
TakeRows(t, idx) ==
    [t EXCEPT !.index = [j \in 1..Len(idx) |-> t.index[idx[j]]],
              !.data = [j \in 1..Len(idx) |-> t.data[idx[j]]]]

\* the non-NaN cells of a column
NotNull(col) == SelectSeq(col, LAMBDA x : ~IsNaN(x))

RECURSIVE FSum(_)
FSum(q) == IF Len(q) = 0 THEN I(0) ELSE FAdd(q[1], FSum(Tail(q)))

\* Series.mean(): skips NaN, NaN when nothing is left
Mean(col) ==
    LET v == NotNull(col)
    IN  IF Len(v) = 0 THEN NaN ELSE FDiv(FSum(v), I(Len(v)))

\* the value at rank r (1 = smallest) of a NaN-free sequence
AtRank(v, r) ==
    LET Before(i) == Cardinality({j \in 1..Len(v) :
                                    FLt(v[j], v[i]) \/ (v[j] = v[i] /\ j < i)})
    IN  v[CHOOSE i \in 1..Len(v) : Before(i) = r - 1]

\* Series.median(): skips NaN, mean of the two middle values for an even count
Median(col) ==
    LET v == NotNull(col)
        n == Len(v)
    IN  IF n = 0 THEN NaN
        ELSE IF n % 2 = 1 THEN AtRank(v, (n + 1) \div 2)
        ELSE FDiv(FAdd(AtRank(v, n \div 2), AtRank(v, n \div 2 + 1)), I(2))

(***************************************************************************)
(* Python dict with insertion order, as a sequence of key/value entries    *)
(***************************************************************************)
DictHas(d, k) == \E i \in 1..Len(d) : d[i].key = k

\* d[k] = v: an existing key keeps its position, a new key is appended
DictSet(d, k, v) ==
    IF DictHas(d, k)
    THEN [i \in 1..Len(d) |-> IF d[i].key = k THEN [key |-> k, value |-> v] ELSE d[i]]
    ELSE Append(d, [key |-> k, value |-> v])

\* max(d, key=d.get) picks the last key among equal values (not the code)
DictMaxKeyLast(d) ==
    LET i == CHOOSE j \in 1..Len(d) :
                 /\ \A m \in 1..Len(d) : d[m].value <= d[j].value
                 /\ \A m \in (j + 1)..Len(d) : d[m].value < d[j].value
    IN  d[i].key

\* max(d, key=d.get): the first key, in iteration order, whose value no
\* later key exceeds and no earlier key equals
DictMaxKey(d) ==
    LET i == CHOOSE j \in 1..Len(d) :
                 /\ \A m \in 1..Len(d) : d[m].value <= d[j].value
                 /\ \A m \in 1..(j - 1) : d[m].value < d[j].value
    IN  d[i].key

(***************************************************************************)
(* DataProcessor.find_column                                               *)
(***************************************************************************)
\* one pass of the `for keyword in keywords` body: if / elif / elif
keyword_points(keyword, col_lower) ==
    LET kw == Lower(keyword)
        tokens == SplitUnderscore(kw)
    IN  IF kw = col_lower THEN 100
        ELSE IF Contains(kw, col_lower) THEN 50
        ELSE IF \E i \in 1..Len(tokens) : Contains(tokens[i], col_lower) THEN 25
        ELSE 0

RECURSIVE keyword_loop(_, _, _)
\* score accumulated over keywords[1..n]
keyword_loop(keywords, col_lower, n) ==
    IF n = 0 THEN 0
    ELSE keyword_loop(keywords, col_lower, n - 1) + keyword_points(keywords[n], col_lower)

\* bonus for common inventory terms
inventory_bonus(col_lower) ==
    IF \E i \in 1..Len(inventory_terms) : Contains(inventory_terms[i], col_lower)
    THEN 10 ELSE 0

\* the score of one column at the end of the `for col in columns` body
column_score(keywords, col) ==
    LET col_lower == Strip(Lower(col))
    IN  keyword_loop(keywords, col_lower, Len(keywords)) + inventory_bonus(col_lower)

\* the headers the model uploads
HeaderPool == {"Stock", "stock", " qty ", "Item Category", "Sales", "Inventory", "amount", "Notes"}

\* the headers of the uploaded tables
UploadHeaders == <<"Name", "Category", "Inventory", "Sales", "Reorder", "Price">>

\* the headers of a table that brings its own turnover column
TurnoverHeaders == UploadHeaders \o <<"Turnover">>

KnownHeaders == HeaderPool \cup {TurnoverHeaders[i] : i \in 1..Len(TurnoverHeaders)}

KeywordLists == {KeywordsOf(Fields[i]) : i \in 1..Len(Fields)}

\* column_score tabulated once over the keyword lists and the known headers
column_score_table ==
    [keywords \in KeywordLists |-> [col \in KnownHeaders |-> column_score(keywords, col)]]

score_of(keywords, col) ==
    IF keywords \in KeywordLists /\ col \in KnownHeaders
    THEN column_score_table[keywords][col]
    ELSE column_score(keywords, col)

RECURSIVE column_scores(_, _, _)
\* the column_scores dict after the first n columns
column_scores(keywords, cols, n) ==
    IF n = 0 THEN <<>>
    ELSE LET d == column_scores(keywords, cols, n - 1)
             score == score_of(keywords, cols[n])
         IN  IF score > 0 THEN DictSet(d, cols[n], score) ELSE d

find_column(keywords, cols) ==
    LET d == column_scores(keywords, cols, Len(cols))
    IN  IF Len(d) > 0 THEN DictMaxKey(d) ELSE None

(***************************************************************************)
(* DataProcessor.detect_columns / validate_required_columns                *)
(***************************************************************************)
RECURSIVE detect_exclusive(_, _)
\* the map after the first n fields when a header chosen for one field is
\* taken out of the candidates of the fields after it (not the code)
detect_exclusive(cols, n) ==
    IF n = 0 THEN [f \in {} |-> None]
    ELSE LET prev == detect_exclusive(cols, n - 1)
             taken == {prev[Fields[k]] : k \in 1..(n - 1)}
             free == SelectSeq(cols, LAMBDA h : h \notin taken)
         IN  [f \in (DOMAIN prev) \cup {Fields[n]} |->
                 IF f = Fields[n] THEN find_column(KeywordsOf(f), free) ELSE prev[f]]

\* resolution with each header given to one field at most (not the code)
detect_columns_exclusive(cols) == detect_exclusive(cols, Len(Fields))

detect_columns(cols) == [f \in FieldSet |-> find_column(KeywordsOf(f), cols)]

\* a version that also requires price (not the code)
required_cols_with_price == <<"name", "category", "stock", "sales", "price">>

required_cols == <<"name", "category", "stock", "sales">>

preferred_cols == <<"reorder", "price">>

\* columns_map.get(name)
MapGet(m, k) == IF k \in DOMAIN m THEN m[k] ELSE None

\* Python truthiness of a header-or-None
Truthy(v) == v # None /\ v # ""

validate_required_columns(m) ==
    LET missing_required == SelectSeq(required_cols, LAMBDA n : ~Truthy(MapGet(m, n)))
        missing_preferred == SelectSeq(preferred_cols, LAMBDA n : ~Truthy(MapGet(m, n)))
    IN  [is_valid |-> Len(missing_required) = 0,
         missing_required |-> missing_required,
         preferred_missing |-> missing_preferred]

(***************************************************************************)
(* Resolver run: detect_columns then validate_required_columns on one      *)
(* header list                                                             *)
(***************************************************************************)
RECURSIVE SeqsUpTo(_, _)
SeqsUpTo(S, n) ==
    IF n = 0 THEN {<<>>}
    ELSE LET prev == SeqsUpTo(S, n - 1)
         IN  prev \cup {Append(q, x) : q \in {p \in prev : Len(p) = n - 1}, x \in S}

NoValidation == [is_valid |-> FALSE, missing_required |-> <<>>, preferred_missing |-> <<>>]

NoError == [kind |-> "none", reason |-> "none"]

NoResponse == [status |-> 0, type |-> "none", success |-> FALSE]

\* no row for the session id
NoSession == [state |-> "none"]

NoResult == [fn |-> "none"]

NoRequests == <<>>

\* a header list alone: no rows are read by the resolver
ResolverInit ==
    /\ columns \in SeqsUpTo(HeaderPool, MaxHeaders)
    /\ file = [kind |-> "headers"]
    /\ frames = <<>>
    /\ df = 0
    /\ df_clean = 0
    /\ calc_df = 0
    /\ columns_map = [f \in {} |-> None]
    /\ validation = NoValidation
    /\ log = <<>>
    /\ error = NoError
    /\ response = NoResponse
    /\ session = NoSession
    /\ result = NoResult
    /\ requests = NoRequests
    /\ pc = "loaded"

DetectColumns ==
    /\ pc = "loaded"
    /\ columns_map' = detect_columns(columns)
    /\ log' = Append(log, "detect_columns")
    /\ pc' = "detected"
    /\ UNCHANGED <<file, frames, df, df_clean, calc_df, columns, validation,
                   error, response, session, result, requests>>

ValidateRequiredColumns ==
    /\ pc = "detected"
    /\ validation' = validate_required_columns(columns_map)
    /\ log' = Append(log, "validate_required_columns")
    /\ pc' = "validated"
    /\ UNCHANGED <<file, frames, df, df_clean, calc_df, columns, columns_map,
                   error, response, session, result, requests>>

ResolverNext == DetectColumns \/ ValidateRequiredColumns

ResolverSpec == ResolverInit /\ [][ResolverNext]_vars

(***************************************************************************)
(* DataProcessor.clean_data                                                *)
(***************************************************************************)
DigitChars == <<"0", "1", "2", "3", "4", "5", "6", "7", "8", "9">>

IsDigit(c) == \E i \in 1..10 : DigitChars[i] = c

DigitVal(c) == (CHOOSE i \in 1..10 : DigitChars[i] = c) - 1

RECURSIVE ParseDigits(_, _)
\* the value of a string of decimal digits, acc carried from the left
ParseDigits(str, acc) ==
    IF Len(str) = 0 THEN acc
    ELSE ParseDigits(SubSeq(str, 2, Len(str)), 10 * acc + DigitVal(SubSeq(str, 1, 1)))

AllDigits(str) == Len(str) > 0 /\ \A i \in 1..Len(str) : IsDigit(SubSeq(str, i, i))

\* pd.to_numeric(..., errors='coerce') on one cell: integer text parses,
\* any other text becomes NaN, numbers and NaN pass through
to_numeric(x) ==
    IF x.k # "text" THEN x
    ELSE LET t == Strip(x.s)
         IN  IF AllDigits(t) THEN I(ParseDigits(t, 0))
             ELSE IF Len(t) > 1 /\ SubSeq(t, 1, 1) = "-" /\ AllDigits(SubSeq(t, 2, Len(t)))
                  THEN I(-ParseDigits(SubSeq(t, 2, Len(t)), 0))
             ELSE NaN

\* str(value) of astype(str)
to_str(x) ==
    IF x.k = "text" THEN x.s
    ELSE IF x.k = "nan" THEN "nan"
    ELSE IF x.k = "inf" THEN (IF x.n < 0 THEN "-inf" ELSE "inf")
    ELSE IF x.d = 1 THEN ToString(x.n)
    ELSE ToString(x.n) \o "/" \o ToString(x.d)

numeric_columns == <<"stock", "sales", "reorder", "price", "turnover">>

text_columns == <<"name", "category", "supplier">>

\* only stock is repaired (not the code)
abs_columns_stock_only == {"stock"}

\* the col_types whose negative values are replaced by their absolute value
abs_columns == {"stock", "sales"}

\* `col_type in columns_map and columns_map[col_type] in df_clean.columns`
Mapped(t, cm, col_type) == col_type \in DOMAIN cm /\ HasColumn(t, cm[col_type])

\* every missing cell filled with 0 (not the code)
fill_value_zero(t, cm, col_type) == I(0)

\* the fill value chosen for col_type, t being the frame after coercion
fill_value(t, cm, col_type) ==
    LET col == Col(t, cm[col_type])
        all_null == \A i \in 1..Len(col) : IsNaN(col[i])
        stock_col == MapGet(cm, "stock")
    IN  IF col_type = "stock" THEN (IF ~all_null THEN Median(col) ELSE I(0))
        ELSE IF col_type = "sales" THEN (IF ~all_null THEN Mean(col) ELSE I(1))
        ELSE IF col_type = "reorder"
             THEN (IF Truthy(stock_col) /\ HasColumn(t, stock_col)
                   THEN FMul(Mean(Col(t, stock_col)), Num(2, 10))
                   ELSE I(10))
        ELSE (IF ~all_null THEN Median(col) ELSE I(0))

\* Series.fillna(v, inplace=True) on df_clean[col]: NaN cells take v unless v
\* is NaN itself; the fill lands in df_clean (pandas without copy-on-write)
fillna(col, v) == [i \in 1..Len(col) |-> IF IsNaN(col[i]) THEN v ELSE col[i]]

\* one pass of the numeric loop body
clean_numeric_column(t, cm, col_type) ==
    IF ~Mapped(t, cm, col_type) THEN t
    ELSE LET col_name == cm[col_type]
             raw == Col(t, col_name)
             coerced == [i \in 1..Len(raw) |-> to_numeric(raw[i])]
             repaired == IF col_type \in abs_columns
                            /\ \E i \in 1..Len(coerced) : FLt(coerced[i], I(0))
                         THEN [i \in 1..Len(coerced) |-> FAbs(coerced[i])]
                         ELSE coerced
             t2 == SetCol(t, col_name, repaired)
         IN  IF \E i \in 1..Len(repaired) : IsNaN(repaired[i])
             THEN SetCol(t2, col_name, fillna(repaired, fill_value(t2, cm, col_type)))
             ELSE t2

RECURSIVE clean_numeric(_, _, _)
\* the numeric loop over numeric_columns[1..n]
clean_numeric(t, cm, n) ==
    IF n = 0 THEN t
    ELSE clean_numeric_column(clean_numeric(t, cm, n - 1), cm, numeric_columns[n])

placeholder(col_type) ==
    IF col_type = "name" THEN "Unknown Product"
    ELSE IF col_type = "category" THEN "Uncategorized"
    ELSE "Unknown Supplier"

\* one pass of the text loop body: astype(str), strip, placeholders
clean_text_column(t, cm, col_type) ==
    IF ~Mapped(t, cm, col_type) THEN t
    ELSE LET col_name == cm[col_type]
             raw == Col(t, col_name)
             stripped == [i \in 1..Len(raw) |-> Strip(to_str(raw[i]))]
         IN  SetCol(t, col_name,
                    [i \in 1..Len(raw) |->
                        IF stripped[i] = "" \/ stripped[i] = "nan"
                        THEN Text(placeholder(col_type))
                        ELSE Text(stripped[i])])

RECURSIVE clean_text(_, _, _)
clean_text(t, cm, n) ==
    IF n = 0 THEN t
    ELSE clean_text_column(clean_text(t, cm, n - 1), cm, text_columns[n])

\* the mapped critical columns that exist in the frame
critical_cols(t, cm) ==
    SelectSeq([i \in 1..3 |-> MapGet(cm, <<"name", "stock", "sales">>[i])],
              LAMBDA c : Truthy(c) /\ HasColumn(t, c))

\* df.dropna(subset=cols, how='all')
dropna_all(t, cols) ==
    LET AllNull(i) == \A j \in 1..Len(cols) : IsNaN(t.data[i][cols[j]])
        keep == SelectSeq([i \in 1..NRows(t) |-> i], LAMBDA i : ~AllNull(i))
    IN  TakeRows(t, keep)

\* df_clean = df: the caller's frame itself (not the code)
df_alias(h, r) == r

\* df.copy(): a new frame object
df_copy(h, r) == Len(h) + 1

HeapPut(h, r, v) == IF r <= Len(h) THEN [h EXCEPT ![r] = v] ELSE Append(h, v)

\* clean_data on the frame referenced by r: the frames afterwards and the
\* reference returned
clean_data(h, r, cm) ==
    LET w == df_copy(h, r)
        h0 == HeapPut(h, w, h[r])
        cleaned == clean_text(clean_numeric(h0[w], cm, Len(numeric_columns)), cm,
                              Len(text_columns))
        h1 == HeapPut(h0, w, cleaned)
        crit == critical_cols(cleaned, cm)
    IN  IF Len(crit) > 0
        THEN [frames |-> Append(h1, dropna_all(cleaned, crit)), result |-> Len(h1) + 1]
        ELSE [frames |-> h1, result |-> w]

(***************************************************************************)
(* InventoryCalculations.__init__ / _prepare_data / _classify_stock_status *)
(* / _validate_data                                                        *)
(***************************************************************************)
\* np.select(conditions, choices, default): the choice of the first true
\* condition
np_select(conds, choices, default) ==
    IF \E j \in 1..Len(conds) : conds[j]
    THEN choices[CHOOSE j \in 1..Len(conds) :
                    conds[j] /\ \A m \in 1..(j - 1) : ~conds[m]]
    ELSE default

\* conditions joined with `and` throughout (not the code)
status_conditions_all_and(stock, reorder_level, days_supply) ==
    <<FLe(stock, FMul(reorder_level, Num(1, 2))) /\ FLe(days_supply, I(7)),
      FLe(stock, reorder_level) /\ FLe(days_supply, I(15)),
      FLe(stock, FMul(reorder_level, I(2))) /\ FLe(days_supply, I(45)),
      FLe(stock, FMul(reorder_level, I(3))) /\ FLe(days_supply, I(90))>>

\* the four conditions of _classify_stock_status for one row
status_conditions(stock, reorder_level, days_supply) ==
    <<FLe(stock, FMul(reorder_level, Num(1, 2))) \/ FLe(days_supply, I(7)),
      FLe(stock, reorder_level) \/ FLe(days_supply, I(15)),
      FLe(stock, FMul(reorder_level, I(2))) /\ FLe(days_supply, I(45)),
      FLe(stock, FMul(reorder_level, I(3))) /\ FLe(days_supply, I(90))>>

status_choices == <<"CRITICAL", "LOW", "NORMAL", "HEALTHY">>

\* `self.cols.get(f) and self.cols[f] in self.df.columns`
HasField(t, cols, f) == Truthy(MapGet(cols, f)) /\ HasColumn(t, cols[f])

\* days of supply with the stock as sentinel (not the code)
days_of_supply_stock_sentinel(stock, sales) ==
    IF FGt(sales, I(0)) THEN FMul(FDiv(stock, sales), I(30)) ELSE stock

\* np.where(sales > 0, (stock / sales) * 30, 365) for one row
days_of_supply(stock, sales) ==
    IF FGt(sales, I(0)) THEN FMul(FDiv(stock, sales), I(30)) ELSE I(365)

\* np.where(stock > 0, COGS / (stock * COGS / Annual_Sales), 0) for one row
inventory_turnover(stock, cogs, annual_sales) ==
    IF FGt(stock, I(0)) THEN FDiv(cogs, FDiv(FMul(stock, cogs), annual_sales)) ELSE I(0)

\* np.where(stock > 0, Annual_Sales / stock, 0) for one row
simple_turnover(stock, annual_sales) ==
    IF FGt(stock, I(0)) THEN FDiv(annual_sales, stock) ELSE I(0)

\* np.sqrt of a float: the surd of a non-negative rational is kept exact as
\* kind "sqrt" (the square root of n/d)
FSqrt(x) ==
    IF IsNaN(x) THEN NaN
    ELSE IF IsInf(x) THEN (IF x.n > 0 THEN x ELSE NaN)
    ELSE IF x.n < 0 THEN NaN
    ELSE [k |-> "sqrt", n |-> x.n, d |-> x.d, s |-> ""]

\* np.maximum: NaN if either operand is NaN
FMaximum(a, b) ==
    IF IsNaN(a) \/ IsNaN(b) THEN NaN
    ELSE IF FLt(a, b) THEN b ELSE a

\* the first columns of _prepare_data, which read the sales column only:
\* Annual_Sales, the price column made numeric, COGS
sales_metrics(t, cols) ==
    LET n == NRows(t)
        sales == Col(t, cols["sales"])
        has_price == HasField(t, cols, "price")
        tp == IF has_price
              THEN SetCol(t, cols["price"],
                          [i \in 1..n |-> to_numeric(Col(t, cols["price"])[i])])
              ELSE t
        annual == [i \in 1..n |-> FMul(sales[i], I(12))]
        cogs == [i \in 1..n |->
                    FMul(annual[i], IF has_price THEN Col(tp, cols["price"])[i] ELSE I(25))]
    IN  SetCol(SetCol(tp, "Annual_Sales", annual), "COGS", cogs)

\* the columns _prepare_data adds before the ABC analysis, in order
base_metrics(t, cols) ==
    LET n == NRows(t)
        sales == Col(t, cols["sales"])
        stock == Col(t, cols["stock"])
        has_price == HasField(t, cols, "price")
        tp == IF has_price
              THEN SetCol(t, cols["price"],
                          [i \in 1..n |-> to_numeric(Col(t, cols["price"])[i])])
              ELSE t
        unit_cost == [i \in 1..n |-> IF has_price THEN Col(tp, cols["price"])[i] ELSE I(25)]
        annual == [i \in 1..n |-> FMul(sales[i], I(12))]
        cogs == [i \in 1..n |-> FMul(annual[i], unit_cost[i])]
        inv_to == [i \in 1..n |-> inventory_turnover(stock[i], cogs[i], annual[i])]
        simple == [i \in 1..n |-> simple_turnover(stock[i], annual[i])]
        final == [i \in 1..n |-> FMinimum(inv_to[i], simple[i])]
        days == [i \in 1..n |-> days_of_supply(stock[i], sales[i])]
        safety == [i \in 1..n |-> FMul(sales[i], Num(3, 2))]
        orp == [i \in 1..n |-> FAdd(FMul(FDiv(sales[i], I(30)), I(14)), safety[i])]
        holding == [i \in 1..n |-> FMul(unit_cost[i], Num(1, 4))]
        eoq == [i \in 1..n |->
                   FSqrt(FDiv(FMul(FMul(I(2), annual[i]), I(50)), FMaximum(holding[i], I(1))))]
        value == [i \in 1..n |-> FMul(stock[i], unit_cost[i])]
        t1 == SetCol(tp, "Annual_Sales", annual)
        t2 == SetCol(t1, "COGS", cogs)
        t3 == SetCol(t2, "Inventory_Turnover", inv_to)
        t4 == SetCol(t3, "Simple_Turnover", simple)
        t5 == SetCol(t4, "Final_Turnover", final)
        t6 == SetCol(t5, "Days_of_Supply", days)
        t7 == SetCol(t6, "Safety_Stock", safety)
        t8 == SetCol(t7, "Optimal_Reorder_Point", orp)
        t9 == SetCol(t8, "EOQ", eoq)
    IN  SetCol(t9, "Inventory_Value", value)

\* ranking by Annual_Sales itself (not the code)
revenue_impact_annual_sales(t) ==
    [i \in 1..NRows(t) |-> t.data[i]["Annual_Sales"]]

\* Revenue_Impact = Annual_Sales * COGS / Annual_Sales, row by row
revenue_impact(t) ==
    [i \in 1..NRows(t) |->
        FDiv(FMul(t.data[i]["Annual_Sales"], t.data[i]["COGS"]), t.data[i]["Annual_Sales"])]

RECURSIVE sort_orders_of(_, _)
\* the orders of the rows `rest': any row with the greatest value first, the
\* NaN rows after every other row and by position
sort_orders_of(vals, rest) ==
    IF rest = {} THEN {<<>>}
    ELSE LET nums == {i \in rest : ~IsNaN(vals[i])}
             firsts == IF nums # {}
                       THEN {i \in nums : \A j \in nums : FLe(vals[j], vals[i])}
                       ELSE {i \in rest : \A j \in rest : i <= j}
         IN  UNION {{<<i>> \o q : q \in sort_orders_of(vals, rest \ {i})} : i \in firsts}

\* the row orders sort_values(ascending=False) may return: values
\* non-increasing, NaN rows last in their original order; the order of equal
\* values is left to the sort kind (quicksort is not stable)
sort_orders(vals) == sort_orders_of(vals, 1..Len(vals))

\* Series.cumsum() at sorted position a: NaN where the value is NaN, else the
\* sum of the non-NaN values so far
cumsum_at(vals, order, a) ==
    IF IsNaN(vals[order[a]]) THEN NaN
    ELSE FSum(NotNull([b \in 1..a |-> vals[order[b]]]))

\* the class column with exclusive boundaries (not the code)
abc_classes_exclusive(t, order) ==
    LET vals == revenue_impact(t)
        total_value == FSum(NotNull(vals))
        Percent(a) == FMul(FDiv(cumsum_at(vals, order, a), total_value), I(100))
        ClassAt(a) == np_select(<<FLt(Percent(a), I(70)), FLt(Percent(a), I(90)),
                                  FLt(Percent(a), I(100))>>,
                                <<"A", "B", "C">>, "C")
    IN  [i \in 1..NRows(t) |-> ClassAt(CHOOSE a \in 1..NRows(t) : order[a] = i)]

\* the ABC_Class column of _calculate_abc_analysis, in the frame's row order
\* (the merge on the index gives each row the class of its sorted position)
abc_classes(t, order) ==
    LET vals == revenue_impact(t)
        total_value == FSum(NotNull(vals))
        Percent(a) == FMul(FDiv(cumsum_at(vals, order, a), total_value), I(100))
        ClassAt(a) == np_select(<<FLe(Percent(a), I(70)), FLe(Percent(a), I(90)),
                                  FLe(Percent(a), I(100))>>,
                                <<"A", "B", "C">>, "C")
    IN  [i \in 1..NRows(t) |-> ClassAt(CHOOSE a \in 1..NRows(t) : order[a] = i)]

\* df.rename(columns={a: b})
RenameCol(t, a, b) ==
    [t EXCEPT !.columns = [i \in 1..Len(@) |-> IF @[i] = a THEN b ELSE @[i]],
              !.data = [i \in 1..NRows(t) |->
                           [x \in ((DOMAIN t.data[i]) \ {a}) \cup {b} |->
                               IF x = b THEN t.data[i][a] ELSE t.data[i][x]]]]

\* self.df.merge(df_sorted[['ABC_Class']], left_index=True, right_index=True,
\* how='left'): a frame that already has an ABC_Class column keeps it as
\* ABC_Class_x and gets the new one as ABC_Class_y
merge_abc(t, abc) ==
    IF HasColumn(t, "ABC_Class")
    THEN SetCol(RenameCol(t, "ABC_Class", "ABC_Class_x"), "ABC_Class_y", abc)
    ELSE SetCol(t, "ABC_Class", abc)

\* Stock_Status and Priority_Score of _classify_stock_status; without an
\* ABC_Class column the Priority_Score expression raises KeyError and the
\* frame is left with Stock_Status only
classify_stock_status(t, cols) ==
    LET n == NRows(t)
        sales == Col(t, cols["sales"])
        stock == Col(t, cols["stock"])
        days == Col(t, "Days_of_Supply")
        reorder_level == IF HasField(t, cols, "reorder") THEN Col(t, cols["reorder"])
                         ELSE Col(t, "Optimal_Reorder_Point")
        status == [i \in 1..n |->
                      np_select(status_conditions(stock[i], reorder_level[i], days[i]),
                                status_choices, "EXCESS")]
        score == [i \in 1..n |->
                     FAdd(FAdd(FAdd(FMul(FSub(I(100), days[i]), Num(4, 10)),
                                    FMul(sales[i], Num(3, 10))),
                               IF t.data[i]["ABC_Class"] = Text("A") THEN I(20) ELSE I(0)),
                          IF status[i] = "CRITICAL" THEN I(30) ELSE I(0))]
        with_status == SetCol(t, "Stock_Status", [i \in 1..n |-> Text(status[i])])
    IN  IF HasColumn(t, "ABC_Class")
        THEN SetCol(with_status, "Priority_Score", score)
        ELSE with_status

\* _prepare_data: the derived columns, the ABC classes for one sort order,
\* then status and priority
prepare_data(t, cols, order) ==
    CHOOSE classified \in
        {classify_stock_status(merged, cols) :
            merged \in {merge_abc(base, [i \in 1..NRows(base) |-> Text(abc[i])]) :
                           base \in {base_metrics(t, cols)},
                           abc \in {abc_classes(base_metrics(t, cols), order)}}} : TRUE

\* the fields _validate_data reports missing
engine_missing_cols(cols) ==
    SelectSeq(<<"stock", "sales", "name", "category">>, LAMBDA c : ~Truthy(MapGet(cols, c)))

\* the typing and fillna part of _validate_data
validate_data(t, cols) ==
    LET Fix(tt, f) ==
            IF HasField(tt, cols, f)
            THEN SetCol(tt, cols[f],
                        [i \in 1..NRows(tt) |->
                            LET v == to_numeric(Col(tt, cols[f])[i])
                            IN  IF IsNaN(v) THEN I(0) ELSE v])
            ELSE tt
    IN  Fix(Fix(Fix(t, "stock"), "sales"), "reorder")

\* `self.cols['sales']` and `self.cols['stock']` name columns of the frame
engine_can_prepare(t, cm) == HasField(t, cm, "sales") /\ HasField(t, cm, "stock")

\* the engine's frame when a column lookup of _prepare_data raises KeyError:
\* untouched when the sales column is missing (line 48), with Annual_Sales
\* and COGS when only the stock column is missing (line 60)
frame_at_key_error(t, cm) ==
    IF HasField(t, cm, "sales") THEN sales_metrics(t, cm) ELSE t

\* the sort orders open to the ABC analysis of InventoryCalculations(df, cm)
engine_orders(t, cm) ==
    IF engine_can_prepare(t, cm)
    THEN sort_orders(revenue_impact(base_metrics(t, cm)))
    ELSE {<<>>}

\* the map keeps a turnover column the resolver found (not the code)
engine_cols_keep_source(cm) ==
    [f \in (DOMAIN cm) \cup {"turnover"} |->
        IF f = "turnover" /\ ~Truthy(MapGet(cm, f)) THEN "Final_Turnover" ELSE cm[f]]

\* self.cols['turnover'] = 'Final_Turnover', written into the shared dict
engine_cols(cm) ==
    [f \in (DOMAIN cm) \cup {"turnover"} |->
        IF f = "turnover" THEN "Final_Turnover" ELSE cm[f]]

\* self.df = df: the caller's frame itself (not the code)
engine_df_alias(h, r) == r

\* self.df = df.copy(): a new frame object
engine_df(h, r) == Len(h) + 1

\* InventoryCalculations(df, columns_map): the exception it raises ("none"
\* when it returns), the frames afterwards, the engine's frame and the
\* columns_map dict, which the engine shares with its caller
engine_init(h, r, cm, order) ==
    IF ~engine_can_prepare(h[r], cm)
    THEN [raised |-> "KeyError", frames |-> HeapPut(h, engine_df(h, r),
                                              frame_at_key_error(h[r], cm)),
          df |-> engine_df(h, r), cols |-> cm]
    ELSE LET cols == engine_cols(cm)
         IN  CHOOSE self \in
                 {IF ~HasColumn(prepared, "ABC_Class")
                  THEN [raised |-> "KeyError", frames |-> HeapPut(h, engine_df(h, r), prepared),
                        df |-> engine_df(h, r), cols |-> cols]
                  ELSE IF Len(engine_missing_cols(cols)) > 0
                  THEN [raised |-> "ValueError", frames |-> HeapPut(h, engine_df(h, r), prepared),
                        df |-> engine_df(h, r), cols |-> cols]
                  ELSE [raised |-> "none",
                        frames |-> HeapPut(h, engine_df(h, r), validate_data(prepared, cols)),
                        df |-> engine_df(h, r), cols |-> cols] :
                      prepared \in {prepare_data(h[r], cm, order)}} : TRUE

(***************************************************************************)
(* The upload request: upload_csv -> process_csv -> InventoryCalculations  *)
(***************************************************************************)
MaxRows == 3

Schemas == {<<"Name", "Category", "Inventory", "Sales">>,
            UploadHeaders,
            <<"Name", "Inventory">>}

\* the data rows the model uploads, cell by header
RowPool ==
    LET Row(nm, cat, inv, sal, reo, pri) ==
            [h \in {UploadHeaders[i] : i \in 1..Len(UploadHeaders)} |->
                CASE h = "Name" -> nm [] h = "Category" -> cat [] h = "Inventory" -> inv
                  [] h = "Sales" -> sal [] h = "Reorder" -> reo [] OTHER -> pri]
    IN  {Row(Text("Widget A"), Text("Tools"), I(5), I(-2), I(10), I(3)),
         Row(Text("Widget B"), Text("Tools"), I(100), I(1), I(5), NaN),
         Row(NaN, NaN, NaN, NaN, NaN, NaN),
         Row(Text(" "), Text("Toys"), Text("-4"), Text("abc"), NaN, I(0)),
         Row(Text("Gadget"), NaN, I(0), I(10), I(5), I(2)),
         Row(Text("Gizmo"), Text("Toys"), I(6), I(0), I(-2), I(4)),
         Row(Text("Bolt"), Text("Tools"), I(40), I(7), I(20), I(1))}

Project(row, schema) == [h \in {schema[i] : i \in 1..Len(schema)} |-> row[h]]

\* what pd.read_csv finds in the saved file
Uploads ==
    {[kind |-> "empty", table |-> Frame(<<>>, <<>>, <<>>)]}
    \cup {[kind |-> "table",
           table |-> Frame(schema, [i \in 1..Len(rows) |-> i - 1],
                           [i \in 1..Len(rows) |-> Project(rows[i], schema)])] :
          schema \in Schemas, rows \in SeqsUpTo(RowPool, MaxRows)}

Init ==
    /\ file \in Uploads
    /\ frames = <<>>
    /\ df = 0
    /\ df_clean = 0
    /\ calc_df = 0
    /\ columns = <<>>
    /\ columns_map = [f \in {} |-> None]
    /\ validation = NoValidation
    /\ log = <<>>
    /\ error = NoError
    /\ response = NoResponse
    /\ session = NoSession
    /\ result = NoResult
    /\ requests = NoRequests
    /\ pc = "start"

\* the except clauses of process_csv applied to an exception raised in its
\* try block: the kind that leaves process_csv
process_csv_except(kind) ==
    IF kind = "FileNotFoundError" THEN "FileNotFoundError"
    ELSE IF kind = "EmptyDataError" THEN "ValueError"
    ELSE "Exception"

\* pd.read_csv(file_path)
ReadCsv ==
    /\ pc = "start"
    /\ IF file.kind = "empty"
       THEN /\ error' = [kind |-> process_csv_except("EmptyDataError"), reason |-> "empty_file"]
            /\ pc' = "raised"
            /\ UNCHANGED <<frames, df, columns>>
       ELSE /\ frames' = <<file.table>>
            /\ df' = 1
            /\ columns' = file.table.columns
            /\ pc' = "loaded"
            /\ UNCHANGED error
    /\ UNCHANGED <<file, df_clean, calc_df, columns_map, validation, log, response, session, result, requests>>

\* `if not is_valid: raise ValueError("Missing required columns: ...")`
RaiseMissingColumns ==
    /\ pc = "validated"
    /\ df # 0
    /\ ~validation.is_valid
    /\ error' = [kind |-> process_csv_except("ValueError"), reason |-> "missing_required"]
    /\ pc' = "raised"
    /\ UNCHANGED <<file, frames, df, df_clean, calc_df, columns, columns_map, validation,
                   log, response, session, result, requests>>

\* analyze_data_quality (report only) and df_clean = self.clean_data(df, columns_map)
CleanData ==
    /\ pc = "validated"
    /\ df # 0
    /\ validation.is_valid
    /\ LET res == clean_data(frames, df, columns_map)
       IN  /\ frames' = res.frames
           /\ df_clean' = res.result
    /\ log' = Append(log, "clean_data")
    /\ pc' = "cleaned"
    /\ UNCHANGED <<file, df, calc_df, columns, columns_map, validation, error,
                   response, session, result, requests>>

\* `if len(df_clean) == 0: raise ValueError("No valid data remaining after cleaning")`
RaiseNoValidData ==
    /\ pc = "cleaned"
    /\ NRows(frames[df_clean]) = 0
    /\ error' = [kind |-> process_csv_except("ValueError"), reason |-> "no_valid_data"]
    /\ pc' = "raised"
    /\ UNCHANGED <<file, frames, df, df_clean, calc_df, columns, columns_map, validation,
                   log, response, session, result, requests>>

\* process_csv returns without looking at len(df_clean) (not the code)
ReturnProcessedUnchecked ==
    /\ pc = "cleaned"
    /\ pc' = "processed"
    /\ UNCHANGED <<file, frames, df, df_clean, calc_df, columns, columns_map, validation,
                   log, error, response, session, result, requests>>

\* process_csv returns (df_clean, columns_map)
ReturnProcessed ==
    /\ pc = "cleaned"
    /\ NRows(frames[df_clean]) # 0
    /\ pc' = "processed"
    /\ UNCHANGED <<file, frames, df, df_clean, calc_df, columns, columns_map, validation,
                   log, error, response, session, result, requests>>

\* calculator = InventoryCalculations(df, columns_map)
Calculate ==
    /\ pc = "processed"
    /\ \E order \in engine_orders(frames[df_clean], columns_map) :
       \E res \in {engine_init(frames, df_clean, columns_map, order)} :
           /\ frames' = res.frames
           /\ calc_df' = res.df
           /\ columns_map' = res.cols
           /\ IF res.raised = "none"
              THEN pc' = "calculated" /\ UNCHANGED error
              ELSE /\ pc' = "raised"
                   /\ error' = [kind |-> res.raised,
                                reason |-> IF res.raised = "ValueError"
                                           THEN "Missing required columns"
                                           ELSE "engine",
                                missing |-> engine_missing_cols(res.cols)]
    /\ log' = Append(log, "InventoryCalculations")
    /\ UNCHANGED <<file, df, df_clean, columns, validation, response, session, result, requests>>

\* df.to_json(): a number is written with at most 10 decimals (a value
\* that needs more is marked "r10": it stands for itself rounded there), a
\* missing value as null, a text as a JSON string
to_json_cell(x) ==
    IF IsNum(x) /\ ~(\E e \in 0..9 : (10 ^ e) % x.d = 0)
    THEN [x EXCEPT !.s = "r10"]
    ELSE x

to_json(t) ==
    [t EXCEPT !.data = [i \in 1..NRows(t) |->
                           [h \in DOMAIN t.data[i] |-> to_json_cell(t.data[i][h])]]]

\* session_data: the cleaned frame as JSON and the columns_map dict as the
\* engine left it
session_data(t, cm) == [state |-> "stored", df_json |-> to_json(t), columns_map |-> cm]

\* the aggregator calls, the charts, set_session_data and the success
\* response; store_session swallows a database error
StoreAndRespond ==
    /\ pc = "calculated"
    /\ session' \in {session_data(frames[df_clean], columns_map), NoSession}
    /\ response' = [status |-> 200, type |-> "success", success |-> TRUE]
    /\ log' = Append(log, "aggregate")
    /\ pc' = "responded"
    /\ UNCHANGED <<file, frames, df, df_clean, calc_df, columns, columns_map, validation,
                   error, result, requests>>

\* the except clauses of upload_csv
upload_except(kind) ==
    IF kind = "ValueError"
    THEN [status |-> 400, type |-> "validation_error", success |-> FALSE]
    ELSE [status |-> 500, type |-> "processing_error", success |-> FALSE]

HandleError ==
    /\ pc = "raised"
    /\ response' = upload_except(error.kind)
    /\ pc' = "responded"
    /\ UNCHANGED <<file, frames, df, df_clean, calc_df, columns, columns_map, validation,
                   log, error, session, result, requests>>

Next ==
    \/ ReadCsv
    \/ DetectColumns
    \/ ValidateRequiredColumns
    \/ RaiseMissingColumns
    \/ CleanData
    \/ RaiseNoValidData
    \/ ReturnProcessed
    \/ Calculate
    \/ StoreAndRespond
    \/ HandleError

Spec == Init /\ [][Next]_vars

(***************************************************************************)
(* Claims on the column resolver                                           *)
(***************************************************************************)
\* points of one keyword against a header, as the specification words it
ClaimPoints(keyword, header) ==
    LET h == Strip(Lower(header))
        tokens == SplitUnderscore(keyword)
    IN  CASE keyword = h -> 100
          [] keyword # h /\ Contains(keyword, h) -> 50
          [] ~Contains(keyword, h) /\ (\E i \in 1..Len(tokens) : Contains(tokens[i], h)) -> 25
          [] OTHER -> 0

RECURSIVE SumSeq(_)
SumSeq(q) == IF Len(q) = 0 THEN 0 ELSE q[1] + SumSeq(Tail(q))

ClaimScore(f, header) ==
    SumSeq([i \in 1..Len(KeywordsOf(f)) |-> ClaimPoints(KeywordsOf(f)[i], header)])
    + (IF \E t \in {"qty", "amount", "level", "count", "volume", "units"} :
              Contains(t, Strip(Lower(header)))
       THEN 10 ELSE 0)

ClaimScoreTable == [f \in FieldSet |-> [h \in HeaderPool |-> ClaimScore(f, h)]]

\* the header the specification names for field f
ClaimWinner(f, cols) ==
    LET sc(i) == ClaimScoreTable[f][cols[i]]
    IN  IF \A i \in 1..Len(cols) : sc(i) <= 0 THEN None
        ELSE cols[CHOOSE i \in 1..Len(cols) :
                     /\ \A j \in 1..Len(cols) : sc(j) <= sc(i)
                     /\ \A j \in 1..(i - 1) : sc(j) < sc(i)]

\* C1: for every header list and every canonical field, find_column returns
\* the header with the highest total score (100 exact / 50 substring / 25
\* token per keyword, plus 10 once for a generic inventory term), the first
\* in input order on a tie, and None when no header scores above 0.
C1_FindColumnHighestScore ==
    pc # "loaded" => \A f \in FieldSet : columns_map[f] = ClaimWinner(f, columns)

\* a tie between two different headers went to the first, and another field
\* found no header
C1_Witness ==
    /\ pc = "detected"
    /\ \E i, j \in 1..Len(columns) :
          /\ i < j
          /\ columns[i] # columns[j]
          /\ ClaimScoreTable["stock"][columns[i]] = ClaimScoreTable["stock"][columns[j]]
          /\ columns_map["stock"] = columns[i]
    /\ columns_map["lead_time"] = None

Unresolved(f) == MapGet(columns_map, f) = None

SeqToSet(q) == {q[i] : i \in 1..Len(q)}

\* C2: validate_required_columns fails exactly when one of name, category,
\* stock, sales is unresolved, lists exactly the unresolved required fields,
\* and never fails because of reorder, price or another optional field.
C2_ValidateRequired ==
    pc = "validated" =>
        /\ validation.is_valid = ~(\E f \in {"name", "category", "stock", "sales"} : Unresolved(f))
        /\ SeqToSet(validation.missing_required)
             = {f \in {"name", "category", "stock", "sales"} : Unresolved(f)}
        /\ Len(validation.missing_required) = Cardinality(SeqToSet(validation.missing_required))

\* validation succeeded although reorder and price are unresolved
C2_Witness ==
    /\ pc = "validated"
    /\ validation.is_valid
    /\ Unresolved("reorder")
    /\ Unresolved("price")

\* validation failed and named two fields
C2_WitnessFail ==
    /\ pc = "validated"
    /\ ~validation.is_valid
    /\ Len(validation.missing_required) = 2

(***************************************************************************)
(* Claims on the upload pipeline                                           *)
(***************************************************************************)
StageOrder == <<"detect_columns", "validate_required_columns", "clean_data",
                "InventoryCalculations", "aggregate">>

IsPrefix(a, b) == Len(a) <= Len(b) /\ \A i \in 1..Len(a) : a[i] = b[i]

Invoked(stage) == \E i \in 1..Len(log) : log[i] = stage

Validated == Invoked("validate_required_columns")

\* C3: within one upload the stages run in the order resolve, validate,
\* clean, derive metrics, aggregate; with a required field unresolved
\* clean_data is never invoked; with a cleaned table of zero rows process_csv
\* fails with the 'no valid data' error and InventoryCalculations is never
\* constructed.
C3_StagesInOrder ==
    /\ IsPrefix(log, StageOrder)
    /\ (Validated /\ ~validation.is_valid) =>
           /\ ~Invoked("clean_data")
           /\ df_clean = 0
           /\ (pc = "responded" => error.reason = "missing_required" /\ ~response.success)
    /\ (df_clean # 0 /\ NRows(frames[df_clean]) = 0) =>
           /\ ~Invoked("InventoryCalculations")
           /\ calc_df = 0
           /\ (pc = "responded" => error.reason = "no_valid_data" /\ ~response.success)

\* a request whose cleaned table had no rows has been answered
C3_Witness ==
    /\ pc = "responded"
    /\ df_clean # 0
    /\ NRows(frames[df_clean]) = 0
    /\ error.reason = "no_valid_data"

\* C4: a missing-required-columns failure and a no-valid-data failure of
\* process_csv reach the upload endpoint as ValueError and are answered with
\* type 'validation_error' and status 400, not 'processing_error' / 500.
C4_ValidationErrorKind ==
    (pc = "responded" /\ error.reason \in {"missing_required", "no_valid_data"}) =>
        /\ error.kind = "ValueError"
        /\ response.type = "validation_error"
        /\ response.status = 400

\* C5: clean_data never mutates the table passed by the caller: columns, row
\* labels and every cell of that table are the same after the call.
C5_CallerTableUnchanged ==
    [][(pc = "validated" /\ pc' = "cleaned") => (df' = df /\ frames'[df] = frames[df])]_vars

\* clean_data returned a table whose cells differ from the caller's
C5_Witness ==
    /\ pc = "cleaned"
    /\ NRows(frames[df_clean]) = NRows(frames[df])
    /\ frames[df_clean].data # frames[df].data

CleanCell(i, f) == frames[df_clean].data[i][columns_map[f]]

RawCell(i, f) == frames[df].data[i][columns_map[f]]

\* C6: no cell of the mapped stock or sales column of the table returned by
\* clean_data is negative, filled cells included.
C6_NoNegativeStockSales ==
    df_clean # 0 =>
        \A f \in {"stock", "sales"} :
            Mapped(frames[df_clean], columns_map, f) =>
                \A i \in 1..NRows(frames[df_clean]) :
                    /\ ~IsNaN(CleanCell(i, f))
                    /\ ~FLt(CleanCell(i, f), I(0))

\* the raw table had a negative sales cell and a missing stock cell
C6_Witness ==
    /\ pc = "cleaned"
    /\ \E i \in 1..NRows(frames[df]) : FLt(to_numeric(RawCell(i, "sales")), I(0))
    /\ \E i \in 1..NRows(frames[df]) : IsNaN(RawCell(i, "stock"))
    /\ NRows(frames[df_clean]) = NRows(frames[df])

\* every mapped field among name, stock, sales is missing in raw row i
RawAllMissing(i) ==
    \A f \in {"name", "stock", "sales"} :
        Mapped(frames[df], columns_map, f) => IsNaN(RawCell(i, f))

\* C7: clean_data drops exactly the rows whose mapped name, stock and sales
\* cells were all missing in the raw input and keeps every other row; a raw
\* table whose every row is such a row fails with 'no valid data'.
C7_DropsAllMissingRows ==
    df_clean # 0 =>
        /\ frames[df_clean].index
             = SelectSeq(frames[df].index, LAMBDA lbl : ~RawAllMissing(lbl + 1))
        /\ (pc = "responded" /\ \A i \in 1..NRows(frames[df]) : RawAllMissing(i))
               => error.reason = "no_valid_data"

EngineRow(i) == frames[calc_df].data[i]

EngineDone == calc_df # 0 /\ pc \in {"calculated", "responded"} /\ error = NoError

\* the smaller of two numbers
MinOf(a, b) == IF FLt(b, a) THEN b ELSE a

\* C8: for every row of a cleaned table, Final_Turnover is the minimum of
\* Simple_Turnover and Inventory_Turnover and both estimates are defined
\* numbers >= 0 (also for sales = 0 with stock > 0, and for price = 0).
C8_FinalTurnoverIsMin ==
    EngineDone =>
        \A i \in 1..NRows(frames[calc_df]) :
            /\ IsNum(EngineRow(i)["Simple_Turnover"])
            /\ IsNum(EngineRow(i)["Inventory_Turnover"])
            /\ FLe(I(0), EngineRow(i)["Simple_Turnover"])
            /\ FLe(I(0), EngineRow(i)["Inventory_Turnover"])
            /\ EngineRow(i)["Final_Turnover"]
                 = MinOf(EngineRow(i)["Simple_Turnover"], EngineRow(i)["Inventory_Turnover"])

\* C9: for every row, Days_of_Supply is exactly 365 when monthly sales is 0
\* and (stock / sales) * 30 when monthly sales is greater than 0.
C9_DaysOfSupply ==
    EngineDone =>
        \A i \in 1..NRows(frames[calc_df]) :
            LET sales == EngineRow(i)[columns_map["sales"]]
                stock == EngineRow(i)[columns_map["stock"]]
                dos == EngineRow(i)["Days_of_Supply"]
            IN  /\ (sales.n = 0 /\ IsNum(sales)) => dos = I(365)
                /\ (sales.n > 0 /\ IsNum(sales)) =>
                       dos = Num(stock.n * sales.d * 30, stock.d * sales.n)

\* the engine ran on a table with a row without sales and a row with sales
\* and stock
C9_Witness ==
    /\ EngineDone
    /\ \E i \in 1..NRows(frames[calc_df]) :
          /\ EngineRow(i)[columns_map["sales"]] = I(0)
          /\ FGt(EngineRow(i)[columns_map["stock"]], I(0))
    /\ \E i \in 1..NRows(frames[calc_df]) :
          /\ FGt(EngineRow(i)[columns_map["sales"]], I(0))
          /\ FGt(EngineRow(i)[columns_map["stock"]], I(0))
          /\ EngineRow(i)["Days_of_Supply"] # I(365)

\* ReorderLevel of row i: the resolved reorder column, else Optimal_Reorder_Point
ClaimReorderLevel(i) ==
    IF MapGet(columns_map, "reorder") # None
       /\ MapGet(columns_map, "reorder") \in DOMAIN EngineRow(i)
    THEN EngineRow(i)[columns_map["reorder"]]
    ELSE EngineRow(i)["Optimal_Reorder_Point"]

\* the label the cascade of the specification gives row i
ClaimStatus(i) ==
    LET stock == EngineRow(i)[columns_map["stock"]]
        rl == ClaimReorderLevel(i)
        dos == EngineRow(i)["Days_of_Supply"]
        \* x <= c * y / q on rationals
        StockLe(c, q) == stock.n * rl.d * q <= c * rl.n * stock.d
        DosLe(c) == dos.n <= c * dos.d
    IN  IF StockLe(1, 2) \/ DosLe(7) THEN "CRITICAL"
        ELSE IF StockLe(1, 1) \/ DosLe(15) THEN "LOW"
        ELSE IF StockLe(2, 1) /\ DosLe(45) THEN "NORMAL"
        ELSE IF StockLe(3, 1) /\ DosLe(90) THEN "HEALTHY"
        ELSE "EXCESS"

\* C10: stock status is a total first-match cascade over ReorderLevel (the
\* reorder column if resolved, else Optimal_Reorder_Point): CRITICAL, else
\* LOW, else NORMAL, else HEALTHY, else EXCESS; stock 0 / sales 10 / reorder 5
\* is CRITICAL and stock 100 / sales 1 / reorder 5 is EXCESS.
C10_StatusCascade ==
    EngineDone =>
        \A i \in 1..NRows(frames[calc_df]) :
            LET status == EngineRow(i)["Stock_Status"].s
                stock == EngineRow(i)[columns_map["stock"]]
                sales == EngineRow(i)[columns_map["sales"]]
            IN  /\ status \in {"CRITICAL", "LOW", "NORMAL", "HEALTHY", "EXCESS"}
                /\ status = ClaimStatus(i)
                /\ (stock = I(0) /\ sales = I(10) /\ ClaimReorderLevel(i) = I(5))
                       => status = "CRITICAL"
                /\ (stock = I(100) /\ sales = I(1) /\ ClaimReorderLevel(i) = I(5))
                       => status = "EXCESS"

\* both example rows were classified against a resolved reorder column, and
\* a third row against Optimal_Reorder_Point
C10_Witness ==
    /\ EngineDone
    /\ columns_map["reorder"] = "Reorder"
    /\ \E i, j \in 1..NRows(frames[calc_df]) :
          /\ EngineRow(i)[columns_map["stock"]] = I(0)
          /\ EngineRow(i)[columns_map["sales"]] = I(10)
          /\ EngineRow(i)["Reorder"] = I(5)
          /\ EngineRow(i)["Stock_Status"] = Text("CRITICAL")
          /\ EngineRow(j)[columns_map["stock"]] = I(100)
          /\ EngineRow(j)[columns_map["sales"]] = I(1)
          /\ EngineRow(j)["Reorder"] = I(5)
          /\ EngineRow(j)["Stock_Status"] = Text("EXCESS")

(***************************************************************************)
(* ABC classification claims                                               *)
(***************************************************************************)
\* the class column of the engine's frame, as strings
EngineClasses == [i \in 1..NRows(frames[calc_df]) |-> EngineRow(i)["ABC_Class"].s]

\* the row's own cumulative percentage of the total of vals at position a
\* of the ranking `order'
ClaimCumPct(vals, order, a) ==
    FMul(FDiv(IF IsNaN(vals[order[a]]) THEN NaN
              ELSE FSum(NotNull([b \in 1..a |-> vals[order[b]]])),
              FSum(NotNull(vals))),
         I(100))

\* the classes the 70 / 90 rule gives when rows are ranked by vals in `order'
ClaimClasses(vals, order) ==
    [i \in 1..Len(vals) |->
        LET pct == ClaimCumPct(vals, order, CHOOSE a \in 1..Len(vals) : order[a] = i)
        IN  IF IsNum(pct) /\ pct.n <= 70 * pct.d THEN "A"
            ELSE IF IsNum(pct) /\ pct.n > 70 * pct.d /\ pct.n <= 90 * pct.d THEN "B"
            ELSE "C"]

\* the descending rankings of vals (rows without a value last)
ClaimRankings(vals) ==
    {p \in [1..Len(vals) -> 1..Len(vals)] :
        /\ \A a, b \in 1..Len(vals) : a # b => p[a] # p[b]
        /\ \A a, b \in 1..Len(vals) :
              a < b => \/ IsNaN(vals[p[b]])
                       \/ (~IsNaN(vals[p[a]]) /\ FLe(vals[p[b]], vals[p[a]]))}

\* the largest value of a non-empty sequence of numbers
MaxOfSeq(seq) == CHOOSE x \in {seq[i] : i \in 1..Len(seq)} :
                     \A i \in 1..Len(seq) : FLe(seq[i], x)

\* the revenue impact the engine ranked its rows by
EngineImpact == revenue_impact(frames[calc_df])

EngineColumn(name) == [i \in 1..NRows(frames[calc_df]) |-> EngineRow(i)[name]]

\* the engine's classes are those of some descending ranking by vals
ClassesRankedBy(vals) ==
    \E order \in ClaimRankings(vals) : EngineClasses = ClaimClasses(vals, order)

PriceResolved == HasField(frames[calc_df], columns_map, "price")

MaxEngineRows == 2

EngineSchemas == {<<"Name", "Category", "Inventory", "Sales">>, TurnoverHeaders}

\* four rows of the upload pool, with a turnover cell of their own
EngineRows ==
    {[h \in {TurnoverHeaders[i] : i \in 1..Len(TurnoverHeaders)} |->
         IF h = "Turnover" THEN I(2) ELSE row[h]] :
        row \in {r \in RowPool : r["Name"] \in {Text("Widget A"), Text("Widget B"),
                                                Text("Gadget"), Text("Gizmo")}}}

\* the column maps handed to the constructor: the resolver's map, or that map
\* with one of the fields _validate_data requires left unresolved
EngineMaps(cm) ==
    {cm} \cup {[cm EXCEPT ![f] = None] : f \in {"name", "category", "stock", "sales"}}

\* the caller holds a table cleaned under the resolver's map and a column map
EngineInit ==
    \E schema \in EngineSchemas, rows \in SeqsUpTo(EngineRows, MaxEngineRows) :
        /\ Len(rows) > 0
        /\ file = [kind |-> "table",
                   table |-> Frame(schema, [i \in 1..Len(rows) |-> i - 1],
                                   [i \in 1..Len(rows) |-> Project(rows[i], schema)])]
        /\ \E cleaned \in {clean_data(<<file.table>>, 1, detect_columns(schema))} :
              /\ frames = cleaned.frames
              /\ df_clean = cleaned.result
        /\ df = 1
        /\ calc_df = 0
        /\ columns = schema
        /\ columns_map \in EngineMaps(detect_columns(schema))
        /\ validation = validate_required_columns(detect_columns(schema))
        /\ log = <<"detect_columns", "validate_required_columns", "clean_data">>
        /\ error = NoError
        /\ response = NoResponse
        /\ session = NoSession
        /\ result = NoResult
        /\ requests = NoRequests
        /\ pc = "processed"

\* InventoryCalculations(calculator.df, columns_map): a second engine on the
\* augmented frame of the first
Reconstruct ==
    /\ pc = "calculated"
    /\ \E order \in engine_orders(frames[calc_df], columns_map) :
       \E res \in {engine_init(frames, calc_df, columns_map, order)} :
           /\ frames' = res.frames
           /\ columns_map' = res.cols
           /\ result' = [fn |-> "InventoryCalculations", raised |-> res.raised, df |-> res.df]
    /\ pc' = "reconstructed"
    /\ UNCHANGED <<file, df, df_clean, calc_df, columns, validation, log, error,
                   response, session, requests>>

(***************************************************************************)
(* The aggregator methods of InventoryCalculations                         *)
(***************************************************************************)
\* the largest k with k * k <= m, searched between lo and hi
RECURSIVE ISqrtIn(_, _, _)
ISqrtIn(m, lo, hi) ==
    IF lo >= hi THEN lo
    ELSE LET mid == (lo + hi + 1) \div 2
         IN  IF mid * mid <= m THEN ISqrtIn(m, mid, hi) ELSE ISqrtIn(m, lo, mid - 1)

\* int(x) raises for NaN (ValueError) and for an infinity (OverflowError)
int_raises(x) == IsNaN(x) \/ IsInf(x)

\* int(x): truncation toward zero
py_int(x) ==
    IF x.k = "sqrt" THEN ISqrtIn(x.n \div x.d, 0, 46340)
    ELSE IF x.n >= 0 THEN x.n \div x.d
    ELSE -((-x.n) \div x.d)

\* round(float(x), digits): to the nearest multiple of 10^-digits, an exact
\* half going to the even neighbour
py_round(x, digits) ==
    IF ~IsNum(x) THEN x
    ELSE LET scaled == x.n * (10 ^ digits)
             lower == scaled \div x.d
             twice_rem == 2 * (scaled - lower * x.d)
             nearest == IF twice_rem < x.d THEN lower
                        ELSE IF twice_rem > x.d THEN lower + 1
                        ELSE IF lower % 2 = 0 THEN lower ELSE lower + 1
         IN  Num(nearest, 10 ^ digits)

\* Python truthiness of an optional string argument
Given(arg) == arg # None /\ arg # ""

\* the positions from the second row on (not the code)
Positions_from_second(t) == [i \in 1..(NRows(t) - 1) |-> i + 1]

\* the positions 1..n of a frame's rows
Positions(t) == [i \in 1..NRows(t) |-> i]

\* re.search(pat, text, IGNORECASE) for a pattern of literal characters and
\* `.', which matches any character
str_contains(text, pat) ==
    LET lt == Lower(text)
        lp == Lower(pat)
    IN  \E start \in 0..(Len(lt) - Len(lp)) :
            \A j \in 1..Len(lp) :
                \/ SubSeq(lp, j, j) = "."
                \/ SubSeq(lp, j, j) = SubSeq(lt, start + j, start + j)

\* the legacy labels of filter_products
status_mapping(status) ==
    CASE status = "Critical" -> "CRITICAL"
      [] status = "Low Stock" -> "LOW"
      [] status = "Healthy" -> "HEALTHY"
      [] status = "Excess" -> "EXCESS"
      [] OTHER -> None

\* filtered_df of filter_products: the four filters applied in turn
filtered_frame(t, cols, category, status, search, abc_class) ==
    LET by_category ==
            IF Given(category) /\ category \notin {"All Categories", "All"}
            THEN SelectSeq(Positions(t), LAMBDA i : t.data[i][cols["category"]] = Text(category))
            ELSE Positions(t)
        values == {t.data[by_category[j]]["Stock_Status"].s : j \in 1..Len(by_category)}
        by_status ==
            IF Given(status) /\ status # "All"
            THEN IF status \in values
                 THEN SelectSeq(by_category, LAMBDA i : t.data[i]["Stock_Status"] = Text(status))
                 ELSE IF status_mapping(status) # None
                 THEN SelectSeq(by_category,
                                LAMBDA i : t.data[i]["Stock_Status"] = Text(status_mapping(status)))
                 ELSE by_category
            ELSE by_category
        by_abc ==
            IF Given(abc_class) /\ abc_class # "All"
            THEN SelectSeq(by_status, LAMBDA i : t.data[i]["ABC_Class"] = Text(abc_class))
            ELSE by_status
        by_search ==
            IF Given(search) /\ Strip(search) # ""
            THEN SelectSeq(by_abc,
                           LAMBDA i : /\ t.data[i][cols["name"]].k = "text"
                                      /\ str_contains(t.data[i][cols["name"]].s, Strip(search)))
            ELSE by_abc
    IN  TakeRows(t, by_search)

\* one result dict of filter_products
product_entry(row, cols) ==
    [name |-> to_str(row[cols["name"]]),
     category |-> to_str(row[cols["category"]]),
     currentStock |-> py_int(row[cols["stock"]]),
     monthlySales |-> py_int(row[cols["sales"]]),
     turnover |-> py_round(row["Final_Turnover"], 2),
     daysOfSupply |-> py_round(row["Days_of_Supply"], 1),
     status |-> to_str(row["Stock_Status"]),
     abcClass |-> to_str(row["ABC_Class"]),
     inventoryValue |-> py_round(row["Inventory_Value"], 2),
     reorderPoint |-> py_int(row["Optimal_Reorder_Point"]),
     suggestedOrder |-> py_int(row["EOQ"]),
     priorityScore |-> py_round(row["Priority_Score"], 1)]

\* list.sort(key=..., reverse=True) and nlargest(keep='first'): descending by
\* key, equal keys in their original order
SortDescending(seq, Key(_)) ==
    LET n == Len(seq)
        Rank(i) == 1 + Cardinality({j \in 1..n : \/ FGt(Key(seq[j]), Key(seq[i]))
                                                 \/ Key(seq[j]) = Key(seq[i]) /\ j < i})
    IN  [r \in 1..n |-> seq[CHOOSE i \in 1..n : Rank(i) = r]]

\* a row of the frame makes int() raise in product_entry
entry_raises(row, cols) ==
    \/ int_raises(row[cols["stock"]])
    \/ int_raises(row[cols["sales"]])
    \/ int_raises(row["Optimal_Reorder_Point"])
    \/ int_raises(row["EOQ"])

\* filter_products(category, status, search, abc_class)
filter_products(t, cols, category, status, search, abc_class) ==
    LET filtered_df == filtered_frame(t, cols, category, status, search, abc_class)
    IN  IF \E i \in 1..NRows(filtered_df) : entry_raises(filtered_df.data[i], cols)
        THEN [raised |-> "ValueError", value |-> <<>>]
        ELSE [raised |-> "none",
              value |-> SortDescending([i \in 1..NRows(filtered_df) |->
                                           product_entry(filtered_df.data[i], cols)],
                                       LAMBDA e : e.priorityScore)]

\* every row of the table, whatever its status and days of supply (not the
\* code)
reorder_candidates_all(t) == Positions(t)

\* the rows get_priority_reorders starts from: status CRITICAL or LOW, or
\* at most 30 days of supply
reorder_candidates(t) ==
    SelectSeq(Positions(t),
              LAMBDA i : \/ t.data[i]["Stock_Status"].s \in {"CRITICAL", "LOW"}
                         \/ FLe(t.data[i]["Days_of_Supply"], I(30)))

\* DataFrame.head(limit): the first `limit' positions in table order (not the
\* code)
nlargest_head(t, idx, limit, column) ==
    SubSeq(idx, 1, IF limit < Len(idx) THEN limit ELSE Len(idx))

\* DataFrame.nlargest(limit, column): the first `limit' positions of the
\* descending order
nlargest(t, idx, limit, column) ==
    LET sorted == SortDescending(idx, LAMBDA i : t.data[i][column])
    IN  SubSeq(sorted, 1, IF limit < Len(sorted) THEN limit ELSE Len(sorted))

Max3(a, b, c) == IF a >= b /\ a >= c THEN a ELSE IF b >= c THEN b ELSE c

\* an urgency that is never LOW (not the code)
urgency_no_low(days) ==
    IF FLe(days, I(7)) THEN "CRITICAL" ELSE IF FLe(days, I(15)) THEN "HIGH" ELSE "MEDIUM"

\* the urgency of a reorder entry, from the row's days of supply
urgency(days) ==
    IF FLe(days, I(7)) THEN "CRITICAL"
    ELSE IF FLe(days, I(15)) THEN "HIGH"
    ELSE IF FLe(days, I(30)) THEN "MEDIUM" ELSE "LOW"

\* one entry of the reorder list
reorder_entry(row, cols) ==
    LET suggested_qty == Max3(py_int(row["EOQ"]),
                              py_int(FSub(row["Optimal_Reorder_Point"], row[cols["stock"]])),
                              py_int(FMul(row[cols["sales"]], I(2))))
        days == row["Days_of_Supply"]
        cost_impact == FDiv(FMul(I(suggested_qty), row["COGS"]), row["Annual_Sales"])
    IN  [product |-> to_str(row[cols["name"]]),
         category |-> to_str(row[cols["category"]]),
         currentStock |-> py_int(row[cols["stock"]]),
         reorderPoint |-> py_int(row["Optimal_Reorder_Point"]),
         suggestedOrder |-> suggested_qty,
         daysOfSupply |-> py_round(days, 1),
         urgency |-> urgency(days),
         priority_score |-> py_round(row["Priority_Score"], 1),
         monthlySales |-> py_int(row[cols["sales"]]),
         turnoverRate |-> py_round(row["Final_Turnover"], 2),
         abcClass |-> to_str(row["ABC_Class"]),
         estimatedCost |-> py_round(cost_impact, 2),
         status |-> to_str(row["Stock_Status"])]

\* get_priority_reorders(limit)
get_priority_reorders(t, cols, limit) ==
    LET top == nlargest(t, reorder_candidates(t), limit, "Priority_Score")
    IN  IF \E j \in 1..Len(top) : entry_raises(t.data[top[j]], cols)
        THEN [raised |-> "ValueError", value |-> <<>>]
        ELSE [raised |-> "none",
              value |-> [j \in 1..Len(top) |-> reorder_entry(t.data[top[j]], cols)]]

\* len(df[df[column] == label])
CountLabel(t, column, label) ==
    Cardinality({i \in 1..NRows(t) : t.data[i][column] = Text(label)})

\* Series.sum(): NaN skipped
ColSum(t, idx, column) == FSum(NotNull([j \in 1..Len(idx) |-> t.data[idx[j]][column]]))

\* the labels of a column, each once
Labels(t, column) == {t.data[i][column].s : i \in 1..NRows(t)}

\* calculate_kpis(): raises ZeroDivisionError on a frame without rows
calculate_kpis(t, cols) ==
    LET total_products == NRows(t)
        critical_count == CountLabel(t, "Stock_Status", "CRITICAL")
        low_count == CountLabel(t, "Stock_Status", "LOW")
        healthy_count == CountLabel(t, "Stock_Status", "HEALTHY")
        excess_count == CountLabel(t, "Stock_Status", "EXCESS")
        normal_count == CountLabel(t, "Stock_Status", "NORMAL")
        total_inventory_value == ColSum(t, Positions(t), "Inventory_Value")
        total_annual_sales == ColSum(t, Positions(t), "Annual_Sales")
        avg_turnover == Mean(Col(t, "Final_Turnover"))
        weighted_turnover ==
            IF FGt(total_inventory_value, I(0))
            THEN FDiv(FSum(NotNull([i \in 1..NRows(t) |->
                                       FMul(t.data[i]["Final_Turnover"],
                                            t.data[i]["Inventory_Value"])])),
                      total_inventory_value)
            ELSE I(0)
        healthy_percentage == Num((healthy_count + normal_count) * 100, total_products)
        avg_days_supply == Median(Col(t, "Days_of_Supply"))
        abc_breakdown ==
            [c \in Labels(t, "ABC_Class") |->
                LET rows == SelectSeq(Positions(t), LAMBDA i : t.data[i]["ABC_Class"] = Text(c))
                IN  [Inventory_Value |-> ColSum(t, rows, "Inventory_Value"),
                     count |-> Len(SelectSeq(rows, LAMBDA i : ~IsNaN(t.data[i][cols["name"]])))]]
        service_level == IF total_products > 0
                         THEN Num((total_products - critical_count) * 100, total_products)
                         ELSE I(0)
        obsolete == SelectSeq(Positions(t), LAMBDA i : FGt(t.data[i]["Days_of_Supply"], I(180)))
    IN  IF total_products = 0
        THEN [raised |-> "ZeroDivisionError", value |-> <<>>]
        ELSE [raised |-> "none",
              value |->
                [totalProducts |-> total_products,
                 criticalAlerts |-> critical_count,
                 averageTurnover |-> py_round(avg_turnover, 2),
                 inventoryHealth |-> py_round(healthy_percentage, 1),
                 totalInventoryValue |-> py_round(total_inventory_value, 2),
                 totalAnnualSales |-> py_round(total_annual_sales, 2),
                 inventoryROI |-> IF FGt(total_inventory_value, I(0))
                                  THEN py_round(FMul(FDiv(total_annual_sales,
                                                          total_inventory_value), I(100)), 1)
                                  ELSE I(0),
                 weightedTurnover |-> py_round(weighted_turnover, 2),
                 avgDaysSupply |-> py_round(avg_days_supply, 1),
                 serviceLevel |-> py_round(service_level, 1),
                 emergencyStock |-> critical_count,
                 lowStock |-> low_count,
                 healthyStock |-> healthy_count,
                 excessStock |-> excess_count,
                 obsoleteItems |-> Len(obsolete),
                 obsoleteValue |-> py_round(ColSum(t, obsolete, "Inventory_Value"), 2),
                 stockoutRisk |-> py_round(Num(critical_count * 100, total_products), 1),
                 abcBreakdown |-> abc_breakdown]]

\* the characters of labels, in code point order
CodePoints == " -.0123456789ABCDEFGHIJKLMNOPQRSTUVWXYZ_abcdefghijklmnopqrstuvwxyz"

CodePoint(c) ==
    IF \E i \in 1..Len(CodePoints) : SubSeq(CodePoints, i, i) = c
    THEN CHOOSE i \in 1..Len(CodePoints) : SubSeq(CodePoints, i, i) = c
    ELSE Len(CodePoints) + 1

\* a < b on Python strings
RECURSIVE StrLess(_, _)
StrLess(a, b) ==
    IF Len(b) = 0 THEN FALSE
    ELSE IF Len(a) = 0 THEN TRUE
    ELSE IF SubSeq(a, 1, 1) = SubSeq(b, 1, 1)
    THEN StrLess(SubSeq(a, 2, Len(a)), SubSeq(b, 2, Len(b)))
    ELSE CodePoint(SubSeq(a, 1, 1)) < CodePoint(SubSeq(b, 1, 1))

\* sorted(strings)
SortedStrings(S) ==
    [r \in 1..Cardinality(S) |->
        CHOOSE x \in S : Cardinality({y \in S : StrLess(y, x)}) = r - 1]

\* get_category_performance(): per category, listed by total sales descending
get_category_performance(t, cols) ==
    LET categories == SortedStrings(Labels(t, cols["category"]))
        Metrics(c) ==
            LET rows == SelectSeq(Positions(t), LAMBDA i : t.data[i][cols["category"]] = Text(c))
                sales == [j \in 1..Len(rows) |-> t.data[rows[j]][cols["sales"]]]
            IN  [category |-> c,
                 totalSales |-> py_round(FSum(NotNull(sales)), 2),
                 avgSales |-> py_round(Mean(sales), 2),
                 productCount |-> Len(NotNull(sales)),
                 avgTurnover |-> py_round(Mean([j \in 1..Len(rows) |->
                                                   t.data[rows[j]]["Final_Turnover"]]), 2),
                 inventoryValue |-> py_round(ColSum(t, rows, "Inventory_Value"), 2),
                 avgDaysSupply |-> py_round(Median([j \in 1..Len(rows) |->
                                                       t.data[rows[j]]["Days_of_Supply"]]), 2),
                 totalStock |-> py_int(py_round(ColSum(t, rows, cols["stock"]), 2))]
    IN  [raised |-> "none",
         value |-> SortDescending([j \in 1..Len(categories) |-> Metrics(categories[j])],
                                  LAMBDA m : m.totalSales)]

\* Series.quantile(q), q = num / den: linear interpolation between the two
\* nearest ranks of the values that are not NaN
quantile(col, num, den) ==
    LET v == NotNull(col)
        m == Len(v)
        lower == ((m - 1) * num) \div den
        frac == Num((m - 1) * num - lower * den, den)
    IN  IF m = 0 THEN NaN
        ELSE IF lower + 2 > m THEN AtRank(v, lower + 1)
        ELSE FAdd(AtRank(v, lower + 1),
                  FMul(frac, FSub(AtRank(v, lower + 2), AtRank(v, lower + 1))))

\* nsmallest(keep='first'): ascending by key, equal keys in their original order
SortAscending(seq, Key(_)) ==
    LET n == Len(seq)
        Rank(i) == 1 + Cardinality({j \in 1..n : \/ FLt(Key(seq[j]), Key(seq[i]))
                                                 \/ Key(seq[j]) = Key(seq[i]) /\ j < i})
    IN  [r \in 1..n |-> seq[CHOOSE i \in 1..n : Rank(i) = r]]

\* one entry of a movers list
mover_entry(row, cols) ==
    [name |-> to_str(row[cols["name"]]),
     category |-> to_str(row[cols["category"]]),
     turnover |-> py_round(row["Final_Turnover"], 2),
     stock |-> py_int(row[cols["stock"]]),
     monthlySales |-> py_int(row[cols["sales"]]),
     daysSupply |-> py_round(row["Days_of_Supply"], 1),
     inventoryValue |-> py_round(row["Inventory_Value"], 2),
     abcClass |-> to_str(row["ABC_Class"]),
     status |-> to_str(row["Stock_Status"]),
     priorityScore |-> py_round(row["Priority_Score"], 1)]

\* the ten rows of the fast cohort with the highest priority score (not the
\* code)
fast_nlargest_priority(t, fast_movers) == nlargest(t, fast_movers, 10, "Priority_Score")

\* fast_movers.nlargest(10, 'Final_Turnover')
fast_nlargest(t, fast_movers) == nlargest(t, fast_movers, 10, "Final_Turnover")

\* get_fast_slow_movers()
get_fast_slow_movers(t, cols) ==
    LET turnover_75th == quantile(Col(t, "Final_Turnover"), 3, 4)
        turnover_25th == quantile(Col(t, "Final_Turnover"), 1, 4)
        fast_movers == SelectSeq(Positions(t),
                                 LAMBDA i : FLe(turnover_75th, t.data[i]["Final_Turnover"]))
        slow_movers == SelectSeq(Positions(t),
                                 LAMBDA i : FLe(t.data[i]["Final_Turnover"], turnover_25th))
        Head10(q) == SubSeq(q, 1, IF Len(q) > 10 THEN 10 ELSE Len(q))
        fastest == fast_nlargest(t, fast_movers)
        slowest == Head10(SortAscending(slow_movers, LAMBDA i : t.data[i]["Final_Turnover"]))
        format_movers(idx) ==
            LET df_sorted == nlargest(t, idx, 10, "Priority_Score")
            IN  [j \in 1..Len(df_sorted) |-> mover_entry(t.data[df_sorted[j]], cols)]
    IN  IF \E i \in 1..NRows(t) : (i \in {fastest[j] : j \in 1..Len(fastest)}
                                      \cup {slowest[j] : j \in 1..Len(slowest)})
                                  /\ entry_raises(t.data[i], cols)
        THEN [raised |-> "ValueError", value |-> <<>>]
        ELSE [raised |-> "none",
              value |-> [fastMovers |-> format_movers(fastest),
                         slowMovers |-> format_movers(slowest),
                         fastMoversCount |-> Len(fast_movers),
                         slowMoversCount |-> Len(slow_movers),
                         turnoverThresholds |-> [fastMover |-> py_round(turnover_75th, 2),
                                                 slowMover |-> py_round(turnover_25th, 2)]]]

\* get_filter_options()
get_filter_options(t, cols) ==
    [raised |-> "none",
     value |-> [categories |-> <<"All Categories">>
                                \o SortedStrings(Labels(t, cols["category"])),
                statuses |-> <<"All">> \o SortedStrings(Labels(t, "Stock_Status")),
                abcClasses |-> <<"All">> \o SortedStrings(Labels(t, "ABC_Class"))]]

\* get_inventory_insights(): each message by its kind and the number in it
get_inventory_insights(t, cols) ==
    LET critical_items == CountLabel(t, "Stock_Status", "CRITICAL")
        excess_value ==
            ColSum(t, SelectSeq(Positions(t),
                                LAMBDA i : t.data[i]["Stock_Status"] = Text("EXCESS")),
                   "Inventory_Value")
        slow_movers == Len(SelectSeq(Positions(t),
                                     LAMBDA i : FLt(t.data[i]["Final_Turnover"], I(1))))
        a_class_low ==
            Len(SelectSeq(Positions(t),
                          LAMBDA i : /\ t.data[i]["ABC_Class"] = Text("A")
                                     /\ t.data[i]["Stock_Status"].s \in {"CRITICAL", "LOW"}))
    IN  [raised |-> "none",
         value |->
           [alerts |-> (IF critical_items > 0 THEN <<[critical |-> critical_items]>> ELSE <<>>)
                       \o (IF FGt(excess_value, I(10000))
                           THEN <<[excess |-> py_round(excess_value, 0)]>> ELSE <<>>),
            recommendations |-> IF slow_movers > 0 THEN <<[slow |-> slow_movers]>> ELSE <<>>,
            opportunities |-> <<>>,
            risks |-> IF a_class_low > 0 THEN <<[a_class_low |-> a_class_low]>> ELSE <<>>]]

(***************************************************************************)
(* Calls on the engine object                                              *)
(***************************************************************************)
\* the limits get_priority_reorders is called with (the upload passes 25)
Limits == {1, 25}

\* the criteria of a filter call: None is an argument left out
FilterCategories == {None, "Tools"}
FilterStatuses == {None, "CRITICAL", "Critical"}
FilterSearches == {None, "widget ", "G..get"}
FilterClasses == {"All", "A"}

\* a method call on the engine returns `out' and leaves everything else alone
Returns(fn, args, out) ==
    /\ pc = "calculated"
    /\ result' = [fn |-> fn, args |-> args, raised |-> out.raised, value |-> out.value]
    /\ UNCHANGED <<file, frames, df, df_clean, calc_df, columns, columns_map, validation,
                   log, error, response, session, requests, pc>>

CalculateKpis ==
    Returns("calculate_kpis", <<>>, calculate_kpis(frames[calc_df], columns_map))

GetPriorityReorders ==
    \E limit \in Limits :
        Returns("get_priority_reorders", <<limit>>,
                get_priority_reorders(frames[calc_df], columns_map, limit))

GetCategoryPerformance ==
    Returns("get_category_performance", <<>>,
            get_category_performance(frames[calc_df], columns_map))

GetFastSlowMovers ==
    Returns("get_fast_slow_movers", <<>>, get_fast_slow_movers(frames[calc_df], columns_map))

GetFilterOptions ==
    Returns("get_filter_options", <<>>, get_filter_options(frames[calc_df], columns_map))

\* filter_products assigns the filtered frame to self.df (not the code)
FilterProductsInPlace ==
    \E category \in FilterCategories, status \in FilterStatuses,
       search \in FilterSearches, abc_class \in FilterClasses :
        /\ pc = "calculated"
        /\ LET out == filter_products(frames[calc_df], columns_map,
                                      category, status, search, abc_class)
           IN  result' = [fn |-> "filter_products",
                          args |-> <<category, status, search, abc_class>>,
                          raised |-> out.raised, value |-> out.value]
        /\ frames' = [frames EXCEPT ![calc_df] =
                         filtered_frame(@, columns_map, category, status, search, abc_class)]
        /\ UNCHANGED <<file, df, df_clean, calc_df, columns, columns_map, validation,
                       log, error, response, session, requests, pc>>

FilterProducts ==
    \E category \in FilterCategories, status \in FilterStatuses,
       search \in FilterSearches, abc_class \in FilterClasses :
        Returns("filter_products", <<category, status, search, abc_class>>,
                filter_products(frames[calc_df], columns_map,
                                category, status, search, abc_class))

GetInventoryInsights ==
    Returns("get_inventory_insights", <<>>,
            get_inventory_insights(frames[calc_df], columns_map))

EngineNext ==
    \/ Calculate
    \/ CalculateKpis
    \/ GetPriorityReorders
    \/ GetCategoryPerformance
    \/ GetFastSlowMovers
    \/ GetFilterOptions
    \/ FilterProducts
    \/ GetInventoryInsights
    \/ Reconstruct

EngineSpec == EngineInit /\ [][EngineNext]_vars

(***************************************************************************)
(* Engine construction claims                                              *)
(***************************************************************************)
DerivedFields == {"Final_Turnover", "Days_of_Supply", "Safety_Stock", "Optimal_Reorder_Point",
                  "Inventory_Value", "ABC_Class", "Stock_Status", "Priority_Score"}

\* C13: constructing InventoryCalculations from the augmented table of a
\* previous InventoryCalculations (same column map) succeeds and gives every
\* row the derived fields of the first run.
C13_RerunIdempotent ==
    pc = "reconstructed" =>
        /\ result.raised = "none"
        /\ \A i \in 1..NRows(frames[calc_df]) : \A f \in DerivedFields :
              /\ f \in DOMAIN frames[result.df].data[i]
              /\ frames[result.df].data[i][f] = frames[calc_df].data[i][f]

\* the source turnover column the resolver found for the table
SourceTurnover == detect_columns(columns)["turnover"]

\* C18: constructing the engine changes the column map in its turnover entry
\* only: the entry names Final_Turnover whatever the resolver had found, and
\* every other entry is as before.
C18_OnlyTurnoverEntryChanges ==
    [][(pc = "processed" /\ pc' = "calculated") =>
          /\ DOMAIN columns_map' = DOMAIN columns_map \cup {"turnover"}
          /\ columns_map'["turnover"] = "Final_Turnover"
          /\ \A f \in DOMAIN columns_map : f # "turnover" => columns_map'[f] = columns_map[f]]_vars

\* an engine was constructed on a table with a turnover column of its own
\* that the resolver had mapped
C18_Witness ==
    /\ pc = "calculated"
    /\ SourceTurnover = "Turnover"
    /\ HasColumn(frames[calc_df], "Turnover")
    /\ columns_map["turnover"] = "Final_Turnover"

\* the fields of name, category, stock, sales the map given to the
\* constructor leaves unresolved
AbsentFields == {f \in {"name", "category", "stock", "sales"} : ~Truthy(MapGet(columns_map, f))}

\* the columns the engine derives
EngineColumns ==
    {"Annual_Sales", "COGS", "Inventory_Turnover", "Simple_Turnover", "Final_Turnover",
     "Days_of_Supply", "Safety_Stock", "Optimal_Reorder_Point", "EOQ", "Inventory_Value",
     "ABC_Class", "Stock_Status", "Priority_Score"}

\* C19: constructing the engine with a column map in which any of name,
\* category, stock, sales is absent fails with a 'Missing required columns'
\* error naming the absent fields, before any derived column is computed.
C19_FailsBeforeDeriving ==
    (calc_df # 0 /\ pc \in {"raised", "calculated"} /\ AbsentFields # {}) =>
        /\ pc = "raised"
        /\ error.kind = "ValueError"
        /\ error.reason = "Missing required columns"
        /\ {error.missing[i] : i \in 1..Len(error.missing)} = AbsentFields
        /\ \A c \in EngineColumns : ~HasColumn(frames[calc_df], c)

(***************************************************************************)
(* Aggregator claims                                                       *)
(***************************************************************************)
\* the last call on the engine was filter_products and it returned a list
Filtered == pc = "calculated" /\ result.fn = "filter_products" /\ result.raised = "none"

\* filtered_df of the last filter_products call
FilteredOnce ==
    filtered_frame(frames[calc_df], columns_map,
                   result.args[1], result.args[2], result.args[3], result.args[4])

\* C14: filtering is idempotent: for every table and every combination of
\* category, status, search and abc_class, filtering the rows filter_products
\* kept once more with the same criteria keeps exactly those rows and returns
\* the same list.
C14_FilterIdempotent ==
    Filtered =>
        \E once \in {FilteredOnce} :
            /\ filtered_frame(once, columns_map, result.args[1], result.args[2],
                              result.args[3], result.args[4]) = once
            /\ filter_products(once, columns_map, result.args[1], result.args[2],
                               result.args[3], result.args[4]).value = result.value

\* a filter call with a status and a search text that kept one row of two
C14_Witness ==
    /\ Filtered
    /\ Given(result.args[2])
    /\ Given(result.args[3])
    /\ NRows(frames[calc_df]) = 2
    /\ Len(result.value) = 1

\* text contains sub, letter case ignored
ClaimContains(text, sub) ==
    \E start \in 0..(Len(text) - Len(sub)) :
        Lower(SubSeq(text, start + 1, start + Len(sub))) = Lower(sub)

\* the row satisfies every criterion the last filter_products call supplied
ClaimMatches(row) ==
    LET category == result.args[1]
        status == result.args[2]
        search == result.args[3]
        abc_class == result.args[4]
    IN  /\ (Given(category) /\ category \notin {"All Categories", "All"}) =>
               row[columns_map["category"]] = Text(category)
        /\ (Given(status) /\ status # "All") =>
               row["Stock_Status"].s \in {status, status_mapping(status)}
        /\ (Given(abc_class) /\ abc_class # "All") => row["ABC_Class"] = Text(abc_class)
        /\ (Given(search) /\ Strip(search) # "") =>
               /\ row[columns_map["name"]].k = "text"
               /\ ClaimContains(row[columns_map["name"]].s, Strip(search))

\* C15: filter_products is a conjunctive filter: the rows it returns are
\* exactly the rows that satisfy every supplied criterion (category equal,
\* status equal to the requested status or to the canonical status its legacy
\* label maps to, ABC class equal, name containing the search text in any
\* letter case), so a request for a canonical status no row has returns no
\* rows.
C15_ConjunctiveFilter ==
    Filtered =>
        FilteredOnce.data = SelectSeq(frames[calc_df].data, ClaimMatches)

\* what the aggregator function fn returns for args on the table t
CallOn(fn, args, t, cols) ==
    CASE fn = "calculate_kpis" -> calculate_kpis(t, cols)
      [] fn = "get_priority_reorders" -> get_priority_reorders(t, cols, args[1])
      [] fn = "get_category_performance" -> get_category_performance(t, cols)
      [] fn = "get_fast_slow_movers" -> get_fast_slow_movers(t, cols)
      [] fn = "get_filter_options" -> get_filter_options(t, cols)
      [] fn = "filter_products" -> filter_products(t, cols, args[1], args[2], args[3], args[4])
      [] fn = "get_inventory_insights" -> get_inventory_insights(t, cols)

\* C16: the aggregator functions are read-only: every call of calculate_kpis,
\* get_priority_reorders, get_category_performance, get_fast_slow_movers,
\* get_filter_options, filter_products or get_inventory_insights, after any
\* calls before it, leaves the working table and the column map as they were
\* and returns what the function gives on that table.
C16_AggregatorsReadOnly ==
    [][(pc = "calculated" /\ pc' = "calculated") =>
          /\ frames' = frames
          /\ calc_df' = calc_df
          /\ columns_map' = columns_map
          /\ \E out \in {CallOn(result'.fn, result'.args, frames[calc_df], columns_map)} :
                /\ result'.raised = out.raised
                /\ result'.value = out.value]_vars

\* a filter call returned fewer products than the table has rows, and the
\* table still has them all
C16_Witness ==
    /\ Filtered
    /\ Len(result.value) < NRows(frames[calc_df])
    /\ NRows(frames[calc_df]) = NRows(frames[df_clean])

\* the last call on the engine was get_priority_reorders and it returned a list
Reordered ==
    pc = "calculated" /\ result.fn = "get_priority_reorders" /\ result.raised = "none"

\* the rows of the working table that are reorder candidates: status CRITICAL
\* or LOW, or at most 30 days of supply
ClaimCandidates ==
    {i \in 1..NRows(frames[calc_df]) :
        \/ EngineRow(i)["Stock_Status"] \in {Text("CRITICAL"), Text("LOW")}
        \/ FLe(EngineRow(i)["Days_of_Supply"], I(30))}

\* the smaller of two numbers
ClaimMin(a, b) == IF a < b THEN a ELSE b

MaxSessionRows == 1

\* the rows of the uploaded table the session was stored for
SessionRows == {r \in EngineRows : r["Name"] \in {Text("Widget A"), Text("Gizmo")}}

\* the criteria of a request's JSON body
FilterCriteria ==
    {[category |-> "Tools", status |-> "CRITICAL", search |-> "widget ", abc_class |-> "All"],
     [category |-> "Hardware", status |-> None, search |-> "", abc_class |-> None]}

\* a request whose handler has read its JSON body
Received(c) ==
    [pc |-> "received", criteria |-> c, shared |-> FALSE,
     df_json |-> Frame(<<>>, <<>>, <<>>), columns_map |-> [f \in {} |-> None],
     df |-> 0, calculator |-> 0, filtered_products |-> <<>>, response |-> NoResponse]

\* the session as upload_csv stored it, in the sessions table of the database
\* or, when the database module is not importable, in the app_sessions dict;
\* two requests are in flight
FilterInit ==
    /\ \E schema \in {TurnoverHeaders}, rows \in SeqsUpTo(SessionRows, MaxSessionRows),
          store \in {"stored", "memory"} :
          /\ Len(rows) > 0
          /\ \E cleaned \in {clean_data(<<Frame(schema, [i \in 1..Len(rows) |-> i - 1],
                                                [i \in 1..Len(rows) |->
                                                    Project(rows[i], schema)])>>,
                                        1, detect_columns(schema))} :
                session = [session_data(cleaned.frames[cleaned.result],
                                        engine_cols(detect_columns(schema)))
                              EXCEPT !.state = store]
    /\ requests \in {<<Received(a), Received(b)>> : a, b \in FilterCriteria}
    /\ file = [kind |-> "empty", table |-> Frame(<<>>, <<>>, <<>>)]
    /\ frames = <<>>
    /\ df = 0
    /\ df_clean = 0
    /\ calc_df = 0
    /\ columns = <<>>
    /\ columns_map = [f \in {} |-> None]
    /\ validation = NoValidation
    /\ log = <<>>
    /\ error = NoError
    /\ response = NoResponse
    /\ result = NoResult
    /\ pc = "serving"

session_error == [status |-> 400, type |-> "session_error", success |-> FALSE]

filter_error == [status |-> 500, type |-> "filter_error", success |-> FALSE]

\* pd.read_json on one column: a column of strings that all read as numbers
\* becomes numeric, any other column is kept as written
read_json_column(col) ==
    IF /\ \E i \in 1..Len(col) : col[i].k = "text"
       /\ \A i \in 1..Len(col) : \/ IsNaN(col[i])
                                 \/ col[i].k = "text" /\ IsNum(to_numeric(col[i]))
    THEN [i \in 1..Len(col) |-> to_numeric(col[i])]
    ELSE col

\* pd.read_json(session_data['df_json'])
read_json(t) ==
    [t EXCEPT !.data = [i \in 1..NRows(t) |->
                           [h \in DOMAIN t.data[i] |-> read_json_column(Col(t, h))[i]]]]

\* calculator = InventoryCalculations(df, columns_map) and
\* calculator.filter_products(...) on the frame referenced by r
filter_call(h, r, cm, c, order) ==
    CHOOSE out \in
        {[frames |-> res.frames, cols |-> res.cols, calculator |-> res.df,
          products |-> IF res.raised = "none"
                       THEN filter_products(res.frames[res.df], res.cols, c.category,
                                            c.status, Strip(c.search), c.abc_class)
                       ELSE [raised |-> res.raised, value |-> <<>>]] :
            res \in {engine_init(h, r, cm, order)}} : TRUE

\* filtered_df = df.copy() with the category and search filters
stats_frame(t, cols, category, search) ==
    filtered_frame(t, cols, category, None, search, None)

\* the row orders the second engine's sort may produce
stats_orders(t, cm) == IF NRows(t) = 0 THEN {<<>>} ELSE engine_orders(t, cm)

success_response(products, total, kpis) ==
    [status |-> 200, type |-> "success", success |-> TRUE,
     filteredProducts |-> products, filteredCount |-> Len(products),
     totalCount |-> total, filteredKpis |-> kpis]

\* the response once calculate_kpis has returned or raised
kpis_response(k, products, total) ==
    IF k.raised # "none" THEN filter_error ELSE success_response(products, total, k.value)

\* the statistics of the request: filtered_df, the second engine on it when
\* it has rows, and the response
stats_call(h, r, cm, c, products, order) ==
    CHOOSE out \in
        {IF NRows(filtered_df) = 0
         THEN [frames |-> Append(h, filtered_df), cols |-> cm,
               response |-> success_response(products, NRows(h[r]),
                                [totalProducts |-> 0, criticalAlerts |-> 0,
                                 averageTurnover |-> 0, inventoryHealth |-> 0])]
         ELSE CHOOSE made \in
                  {[frames |-> res.frames, cols |-> res.cols,
                    response |-> IF res.raised # "none" THEN filter_error
                                 ELSE kpis_response(calculate_kpis(res.frames[res.df], res.cols),
                                                    products, NRows(h[r]))] :
                      res \in {engine_init(Append(h, filtered_df), Len(h) + 1, cm, order)}} :
                  TRUE :
            filtered_df \in {stats_frame(h[r], cm, c.category, Strip(c.search))}} : TRUE

\* the columns_map dict of a request: its own after json.loads, the stored
\* dict itself when the session is kept in app_sessions
ReqCols(r) == IF r.shared THEN session.columns_map ELSE r.columns_map

\* session_data['df_json'] of a request
ReqJson(r) == IF r.shared THEN session.df_json ELSE r.df_json

\* the engine's write into the columns_map dict of request i
PutCols(i, cols) ==
    IF requests[i].shared
    THEN [session |-> [session EXCEPT !.columns_map = cols], columns_map |-> requests[i].columns_map]
    ELSE [session |-> session, columns_map |-> cols]

\* get_session_data(session_id): the row when it is there and has not expired
LoadSession ==
    /\ pc = "serving"
    /\ \E i \in DOMAIN requests :
          /\ requests[i].pc = "received"
          /\ IF session.state \in {"stored", "memory"}
             THEN requests' = [requests EXCEPT ![i].pc = "loaded",
                                               ![i].shared = (session.state = "memory"),
                                               ![i].df_json = session.df_json,
                                               ![i].columns_map = session.columns_map]
             ELSE requests' = [requests EXCEPT ![i].pc = "done",
                                               ![i].response = session_error]
    /\ UNCHANGED <<file, frames, df, df_clean, calc_df, columns, columns_map, validation,
                   log, error, response, session, result, pc>>

ReadJson ==
    /\ pc = "serving"
    /\ \E i \in DOMAIN requests :
          /\ requests[i].pc = "loaded"
          /\ frames' = Append(frames, read_json(ReqJson(requests[i])))
          /\ requests' = [requests EXCEPT ![i].pc = "parsed", ![i].df = Len(frames) + 1]
    /\ UNCHANGED <<file, df, df_clean, calc_df, columns, columns_map, validation,
                   log, error, response, session, result, pc>>

RequestFilter ==
    /\ pc = "serving"
    /\ \E i \in DOMAIN requests :
          /\ requests[i].pc = "parsed"
          /\ \E order \in engine_orders(frames[requests[i].df], ReqCols(requests[i])) :
             \E out \in {filter_call(frames, requests[i].df, ReqCols(requests[i]),
                                     requests[i].criteria, order)} :
             \E put \in {PutCols(i, out.cols)} :
                 /\ frames' = out.frames
                 /\ session' = put.session
                 /\ IF out.products.raised # "none"
                    THEN requests' = [requests EXCEPT ![i].pc = "done",
                                                      ![i].columns_map = put.columns_map,
                                                      ![i].calculator = out.calculator,
                                                      ![i].response = filter_error]
                    ELSE requests' = [requests EXCEPT ![i].pc = "filtered",
                                                      ![i].columns_map = put.columns_map,
                                                      ![i].calculator = out.calculator,
                                                      ![i].filtered_products = out.products.value]
    /\ UNCHANGED <<file, df, df_clean, calc_df, columns, columns_map, validation,
                   log, error, response, result, pc>>

RequestStats ==
    /\ pc = "serving"
    /\ \E i \in DOMAIN requests :
          /\ requests[i].pc = "filtered"
          /\ \E order \in stats_orders(stats_frame(frames[requests[i].df], ReqCols(requests[i]),
                                                   requests[i].criteria.category,
                                                   Strip(requests[i].criteria.search)),
                                       ReqCols(requests[i])) :
             \E out \in {stats_call(frames, requests[i].df, ReqCols(requests[i]),
                                    requests[i].criteria, requests[i].filtered_products,
                                    order)} :
             \E put \in {PutCols(i, out.cols)} :
                 /\ frames' = out.frames
                 /\ session' = put.session
                 /\ requests' = [requests EXCEPT ![i].pc = "done",
                                                 ![i].columns_map = put.columns_map,
                                                 ![i].response = out.response]
    /\ UNCHANGED <<file, df, df_clean, calc_df, columns, columns_map, validation,
                   log, error, response, result, pc>>

\* the row's expires_at passes: get_session no longer returns it
ExpireSession ==
    /\ pc = "serving"
    /\ session.state = "stored"
    /\ session' = [session EXCEPT !.state = "expired"]
    /\ UNCHANGED <<file, frames, df, df_clean, calc_df, columns, columns_map, validation,
                   log, error, response, result, requests, pc>>

FilterNext ==
    \/ LoadSession
    \/ ReadJson
    \/ RequestFilter
    \/ RequestStats
    \/ ExpireSession

FilterSpec == FilterInit /\ [][FilterNext]_vars

(***************************************************************************)
(* Concurrent request claims                                               *)
(***************************************************************************)
\* the responses a request with criteria c gives when it is the only request
\* on the session: a session error when the session cannot be loaded
AloneResponses(blob, c, available) ==
    IF ~available THEN {session_error}
    ELSE UNION
        {IF f.products.raised # "none" THEN {filter_error}
         ELSE {stats_call(f.frames, 1, f.cols, c, f.products.value, o2).response :
                  o2 \in stats_orders(stats_frame(f.frames[1], f.cols, c.category,
                                                  Strip(c.search)), f.cols)} :
             f \in {filter_call(<<read_json(blob.df_json)>>, 1, blob.columns_map, c, o1) :
                       o1 \in engine_orders(read_json(blob.df_json), blob.columns_map)}}

\* C17: under any interleaving of the requests' steps, a step of a filter
\* request changes neither the stored session's table and column map nor any
\* table that exists already (its own loaded table and the other request's
\* tables included), and the response of every request is a response it
\* gives when it runs alone on the session.
C17_RequestsIsolated ==
    [][/\ session'.df_json = session.df_json
       /\ session'.columns_map = session.columns_map
       /\ Len(frames') >= Len(frames)
       /\ \A k \in 1..Len(frames) : frames'[k] = frames[k]
       /\ \A i \in DOMAIN requests :
             (requests[i].pc # "done" /\ requests'[i].pc = "done") =>
                 requests'[i].response \in
                     AloneResponses(session, requests[i].criteria,
                                    \/ requests[i].pc # "received"
                                    \/ session.state \in {"stored", "memory"})]_vars

\* both requests answered with different lists; the second loaded its table
\* after the first and ran its engine before the first did
C17_Witness ==
    /\ pc = "serving"
    /\ \A i \in DOMAIN requests : requests[i].pc = "done" /\ requests[i].response.status = 200
    /\ requests[1].df < requests[2].df
    /\ requests[2].calculator < requests[1].calculator
    /\ requests[1].response.filteredCount # requests[2].response.filteredCount

(***************************************************************************)
(* The engine object on tables at the edges of its input: no rows, a       *)
(* fractional sales figure, a stock far below the reorder level            *)
(***************************************************************************)
EdgeRows ==
    LET Row(nm, cat, inv, sal, reo, pri) ==
            [h \in {TurnoverHeaders[i] : i \in 1..Len(TurnoverHeaders)} |->
                CASE h = "Name" -> nm [] h = "Category" -> cat [] h = "Inventory" -> inv
                  [] h = "Sales" -> sal [] h = "Reorder" -> reo [] h = "Price" -> pri
                  [] OTHER -> I(2)]
    IN  {Row(Text("Cable"), Text("Tools"), I(0), Num(5, 4), I(5), I(1000)),
         Row(Text("Drill"), Text("Tools"), I(40), I(10), I(100), I(3)),
         Row(Text("Saw"), Text("Garden"), I(40), I(10), I(50), I(3))}

\* the caller holds a table cleaned under the resolver's map, possibly with
\* no row, and the map
TableInit(schemas, tables) ==
    \E schema \in schemas, rows \in tables :
        /\ file = [kind |-> "table",
                   table |-> Frame(schema, [i \in 1..Len(rows) |-> i - 1],
                                   [i \in 1..Len(rows) |-> Project(rows[i], schema)])]
        /\ \E cleaned \in {clean_data(<<file.table>>, 1, detect_columns(schema))} :
              /\ frames = cleaned.frames
              /\ df_clean = cleaned.result
        /\ df = 1
        /\ calc_df = 0
        /\ columns = schema
        /\ columns_map = detect_columns(schema)
        /\ validation = validate_required_columns(detect_columns(schema))
        /\ log = <<"detect_columns", "validate_required_columns", "clean_data">>
        /\ error = NoError
        /\ response = NoResponse
        /\ session = NoSession
        /\ result = NoResult
        /\ requests = NoRequests
        /\ pc = "processed"

EdgeInit == TableInit(EngineSchemas, SeqsUpTo(EdgeRows, MaxEngineRows))

EdgeSpec == EdgeInit /\ [][EngineNext]_vars

(***************************************************************************)
(* Reorder list claims                                                     *)
(***************************************************************************)
\* the rows of the working table that give the reorder entry e
RowsOfEntry(e) ==
    {i \in 1..NRows(frames[calc_df]) : reorder_entry(EngineRow(i), columns_map) = e}

\* C21: for every entry of the priority reorder list the suggested order
\* quantity is the largest of EOQ, reorder point minus current stock and twice
\* the monthly sales (each as a whole number), and it is never less than two
\* months of demand, also for a row whose sales figure is fractional.
C21_SuggestedOrderCoversTwoMonths ==
    Reordered =>
        \A j \in 1..Len(result.value) :
            \E i \in RowsOfEntry(result.value[j]) :
                /\ result.value[j].suggestedOrder =
                       Max3(py_int(EngineRow(i)["EOQ"]),
                            py_int(FSub(EngineRow(i)["Optimal_Reorder_Point"],
                                        EngineRow(i)[columns_map["stock"]])),
                            py_int(FMul(EngineRow(i)[columns_map["sales"]], I(2))))
                /\ FLe(FMul(EngineRow(i)[columns_map["sales"]], I(2)),
                       I(result.value[j].suggestedOrder))

\* the urgency label the thresholds give to a days-of-supply figure
ClaimUrgency(days) ==
    CASE FLe(days, I(7)) -> "CRITICAL"
      [] ~FLe(days, I(7)) /\ FLe(days, I(15)) -> "HIGH"
      [] ~FLe(days, I(15)) /\ FLe(days, I(30)) -> "MEDIUM"
      [] OTHER -> "LOW"

\* C22: the urgency of a reorder entry depends on the row's DaysOfSupply
\* alone (<= 7 CRITICAL, <= 15 HIGH, <= 30 MEDIUM, else LOW): the entries of
\* two rows with equal DaysOfSupply carry the same urgency whatever the rows'
\* status, stock or reorder level.
C22_UrgencyFromDaysOnly ==
    Reordered =>
        \A j \in 1..Len(result.value) :
            /\ \E i \in RowsOfEntry(result.value[j]) :
                  result.value[j].urgency = ClaimUrgency(EngineRow(i)["Days_of_Supply"])
            /\ \A k \in 1..Len(result.value) :
                  (\E a \in RowsOfEntry(result.value[j]), b \in RowsOfEntry(result.value[k]) :
                      EngineRow(a)["Days_of_Supply"] = EngineRow(b)["Days_of_Supply"])
                  => result.value[j].urgency = result.value[k].urgency

\* a reorder list with an entry whose urgency is LOW while its status is
\* CRITICAL, and another of equal DaysOfSupply and urgency whose status is LOW
C22_Witness ==
    /\ Reordered
    /\ \E j, k \in 1..Len(result.value) :
          /\ result.value[j].urgency = "LOW" /\ result.value[j].status = "CRITICAL"
          /\ result.value[k].urgency = "LOW" /\ result.value[k].status = "LOW"
          /\ result.value[j].daysOfSupply = result.value[k].daysOfSupply

(***************************************************************************)
(* Cleaning claims                                                         *)
(***************************************************************************)
\* the raw column of field f as numbers: unparseable cells missing, stock
\* and sales cells without their sign
ClaimParsed(f) ==
    [r \in 1..NRows(frames[df]) |->
        IF f \in {"stock", "sales"} THEN FAbs(to_numeric(RawCell(r, f)))
        ELSE to_numeric(RawCell(r, f))]

ClaimAllMissing(f) == \A r \in 1..NRows(frames[df]) : IsNaN(ClaimParsed(f)[r])

\* the fill value of stock, sales, price and turnover
ClaimColumnFill(f) ==
    IF f = "stock" THEN (IF ClaimAllMissing(f) THEN I(0) ELSE Median(ClaimParsed(f)))
    ELSE IF f = "sales" THEN (IF ClaimAllMissing(f) THEN I(1) ELSE Mean(ClaimParsed(f)))
    ELSE (IF ClaimAllMissing(f) THEN I(0) ELSE Median(ClaimParsed(f)))

\* the fill value of field f
ClaimFill(f) ==
    IF f # "reorder" THEN ClaimColumnFill(f)
    ELSE IF Mapped(frames[df], columns_map, "stock")
         THEN FMul(Mean([r \in 1..NRows(frames[df]) |->
                            IF IsNaN(ClaimParsed("stock")[r]) THEN ClaimColumnFill("stock")
                            ELSE ClaimParsed("stock")[r]]),
                   Num(1, 5))
         ELSE I(10)

ClaimBest(f) ==
    {h \in SeqToSet(columns) :
        /\ ClaimScoreTable[f][h] > 0
        /\ \A g \in SeqToSet(columns) : ClaimScoreTable[f][g] <= ClaimScoreTable[f][h]}

\* C24: column resolution runs per field over the whole header list: the
\* header chosen for one field stays a candidate of every other field, so
\* each field gets a best-scoring header of its own whichever headers the
\* other fields took, and two fields may share one header.
C24_FieldsResolvedIndependently ==
    pc # "loaded" =>
        \A f \in FieldSet :
            /\ columns_map[f] = find_column(KeywordsOf(f), columns)
            /\ ClaimBest(f) # {} => columns_map[f] \in ClaimBest(f)
            /\ ClaimBest(f) = {} => columns_map[f] = None

\* stock and turnover resolved to one header although the list has others
C24_Witness ==
    /\ pc = "detected"
    /\ columns_map["stock"] # None
    /\ columns_map["stock"] = columns_map["turnover"]
    /\ Cardinality(SeqToSet(columns)) > 1

\* header h matches a keyword of field f: exactly, as a substring, or by one
\* of the keyword's underscore-delimited tokens
ClaimKeywordMatch ==
    [f \in FieldSet |->
        [h \in HeaderPool |->
            \E i \in 1..Len(KeywordsOf(f)) : ClaimPoints(KeywordsOf(f)[i], h) > 0]]

\* C28: a field is resolved by a keyword match only: detect_columns leaves a
\* field absent when no header matches one of its keywords, and the header it
\* chooses for a field matches a keyword of that field; a header that only
\* contains a generic inventory term is never chosen.
C28_ResolvedByKeywordOnly ==
    pc # "loaded" =>
        \A f \in FieldSet :
            /\ (\A h \in SeqToSet(columns) : ~ClaimKeywordMatch[f][h]) => columns_map[f] = None
            /\ columns_map[f] # None => ClaimKeywordMatch[f][columns_map[f]]

(***************************************************************************)
(* Summary claims                                                          *)
(***************************************************************************)
\* the last call on the engine was calculate_kpis
Summarised == pc = "calculated" /\ result.fn = "calculate_kpis"

\* C25: calculate_kpis never raises a division error: for every augmented
\* table, one with no rows or with total inventory value 0 included, it
\* returns a summary whose value-weighted turnover and ROI are 0 when the
\* total value is 0 and whose inventory health, service level and stockout
\* risk are 0 when the table has no rows.
C25_KpisGuardZeroDenominators ==
    Summarised =>
        /\ result.raised = "none"
        /\ FEq(ColSum(frames[calc_df], Positions(frames[calc_df]), "Inventory_Value"), I(0)) =>
              /\ result.value.weightedTurnover = I(0)
              /\ result.value.inventoryROI = I(0)
        /\ NRows(frames[calc_df]) = 0 =>
              /\ result.value.inventoryHealth = I(0)
              /\ result.value.serviceLevel = I(0)
              /\ result.value.stockoutRisk = I(0)

(***************************************************************************)
(* Urgency and status of reorder entries                                   *)
(***************************************************************************)
MaxUrgencyRows == 1

\* a row of a table with the turnover headers
StockRow(nm, cat, inv, sal, reo, pri) ==
    [h \in {TurnoverHeaders[i] : i \in 1..Len(TurnoverHeaders)} |->
        CASE h = "Name" -> nm [] h = "Category" -> cat [] h = "Inventory" -> inv
          [] h = "Sales" -> sal [] h = "Reorder" -> reo [] h = "Price" -> pri
          [] OTHER -> I(2)]

\* products with 6, 12, 12, 24, 120 and 120 days of supply
UrgencyRows ==
    {StockRow(Text("Glue"), Text("Tools"), I(2), I(10), I(1), I(3)),
     StockRow(Text("Bolt"), Text("Tools"), I(4), I(10), I(100), I(3)),
     StockRow(Text("Nail"), Text("Garden"), I(4), I(10), I(1), I(3)),
     StockRow(Text("Rake"), Text("Garden"), I(8), I(10), I(5), I(3)),
     StockRow(Text("Drill"), Text("Tools"), I(40), I(10), I(100), I(3)),
     StockRow(Text("Hose"), Text("Garden"), I(40), I(10), I(30), I(3))}

UrgencyInit == TableInit(EngineSchemas, SeqsUpTo(UrgencyRows, MaxUrgencyRows))

UrgencySpec == UrgencyInit /\ [][EngineNext]_vars

\* C29: in every reorder entry the urgency label is tied to the stock status:
\* urgency CRITICAL comes only with status CRITICAL, urgency HIGH only with
\* status CRITICAL or LOW, and urgency LOW (more than 30 days of supply) only
\* with status CRITICAL or LOW.
C29_UrgencyBoundsStatus ==
    (Reordered /\ result.raised = "none") =>
        \A j \in 1..Len(result.value) :
            LET e == result.value[j]
            IN  /\ e.urgency = "CRITICAL" => e.status = "CRITICAL"
                /\ e.urgency = "HIGH" => e.status \in {"CRITICAL", "LOW"}
                /\ e.urgency = "LOW" => e.status \in {"CRITICAL", "LOW"}

\* a reorder entry with urgency HIGH and status LOW has been returned
C29_Witness ==
    /\ Reordered
    /\ \E j \in 1..Len(result.value) :
          /\ result.value[j].urgency = "HIGH"
          /\ result.value[j].status = "LOW"
          /\ FGt(result.value[j].daysOfSupply, I(7))

(***************************************************************************)
(* Fast and slow movers                                                    *)
(***************************************************************************)
MaxMoverRows == 12

MoverNames == <<"P01", "P02", "P03", "P04", "P05", "P06", "P07", "P08", "P09", "P10",
                "P11", "P12", "P13", "P14", "P15">>

\* product k sells 10k a month and stocks 20k, product 1 stocks 19: product 1
\* turns over fastest and every other product equally fast
MoverRow(k) ==
    StockRow(Text(MoverNames[k]), Text("Tools"), I(IF k = 1 THEN 19 ELSE 20 * k),
             I(10 * k), I(1), I(3))

\* the products 1..n in order, started at product o + 1
MoverTables ==
    {[i \in 1..n |-> MoverRow(((i + o - 1) % n) + 1)] :
        n \in {MaxMoverRows - 1, MaxMoverRows}, o \in 0..2}

MoversInit == TableInit({TurnoverHeaders}, MoverTables)

MoversSpec == MoversInit /\ [][EngineNext]_vars

\* the last call on the engine was get_fast_slow_movers and it returned
Moved == pc = "calculated" /\ result.fn = "get_fast_slow_movers" /\ result.raised = "none"

\* the rows of the working table at or above the 75th percentile of turnover
ClaimFastCohort ==
    LET t == frames[calc_df]
    IN  {i \in 1..NRows(t) : FLe(quantile(Col(t, "Final_Turnover"), 3, 4),
                                 t.data[i]["Final_Turnover"])}

\* the rows of the working table at or below the 25th percentile of turnover
ClaimSlowCohort ==
    LET t == frames[calc_df]
    IN  {i \in 1..NRows(t) : FLe(t.data[i]["Final_Turnover"],
                                 quantile(Col(t, "Final_Turnover"), 1, 4))}

\* the rows of the working table named by the entries of a movers list
ClaimListed(list) ==
    {i \in 1..NRows(frames[calc_df]) :
        \E j \in 1..Len(list) :
            list[j].name = to_str(frames[calc_df].data[i][columns_map["name"]])}

\* a movers list names min(10, size) rows of its cohort, one entry each
ClaimListOf(list, cohort) ==
    /\ Len(list) = (IF Cardinality(cohort) > 10 THEN 10 ELSE Cardinality(cohort))
    /\ ClaimListed(list) \subseteq cohort
    /\ Cardinality(ClaimListed(list)) = Len(list)

\* the counts are the cohort sizes, and the slow list is the rows of the slow
\* cohort with the lowest turnover
ClaimCountsAndSlow ==
    LET t == frames[calc_df]
    IN  /\ result.value.fastMoversCount = Cardinality(ClaimFastCohort)
        /\ result.value.slowMoversCount = Cardinality(ClaimSlowCohort)
        /\ ClaimListOf(result.value.fastMovers, ClaimFastCohort)
        /\ ClaimListOf(result.value.slowMovers, ClaimSlowCohort)
        /\ \A i \in ClaimListed(result.value.slowMovers) :
           \A j \in ClaimSlowCohort \ ClaimListed(result.value.slowMovers) :
               FLe(t.data[i]["Final_Turnover"], t.data[j]["Final_Turnover"])

MaxStores == 2

MaxClockSteps == 5

SessionIds == {"s1", "s2"}

\* the dicts handed to store_session: an int, a tuple or a set under one key
SessionDicts ==
    {[totals |-> [py |-> "int", v |-> <<1>>]], [totals |-> [py |-> "int", v |-> <<2>>]],
     [totals |-> [py |-> "tuple", v |-> <<1, 2>>]], [totals |-> [py |-> "set", v |-> <<1, 2>>]]}

\* json.dumps raises TypeError on a set
json_raises(data) == data.totals.py = "set"

\* json.dumps(data): a number for an int, an array for a list or a tuple
json_dumps(data) ==
    [totals |-> [json |-> IF data.totals.py = "int" THEN "number" ELSE "array",
                 v |-> data.totals.v]]

\* json.loads(text): an int for a number, a list for an array
json_loads(text) ==
    [totals |-> [py |-> IF text.totals.json = "number" THEN "int" ELSE "list",
                 v |-> text.totals.v]]

\* datetime.now() in hours: the host's local time, utc_offset hours from the
\* database's CURRENT_TIMESTAMP
datetime_now(db) == db.now + db.utc_offset

\* store_session(session_id, data): the database afterwards and the value
\* returned
store_session(db, session_id, data) ==
    LET expires_at == datetime_now(db) + 24
    IN  IF json_raises(data)
        THEN [db |-> db, value |-> FALSE]
        ELSE [db |-> [db EXCEPT !.rows[session_id] =
                         [state |-> "stored", data |-> json_dumps(data),
                          expires_at |-> expires_at]],
              value |-> TRUE]

\* get_session(session_id): <<the dict>>, or <<>> for None
get_session(db, session_id) ==
    LET row == db.rows[session_id]
    IN  IF row # NoSession /\ row.expires_at > db.now THEN <<json_loads(row.data)>> ELSE <<>>

\* cleanup_expired_sessions(): the database afterwards
cleanup_expired_sessions(db) ==
    [db EXCEPT !.rows = [id \in SessionIds |->
                            IF db.rows[id] # NoSession /\ db.rows[id].expires_at <= db.now
                            THEN NoSession
                            ELSE db.rows[id]]]

\* an empty sessions table on a host 8 hours behind, at or 8 hours ahead of
\* UTC; session holds the database and log the store_session calls
StoreInit ==
    /\ \E utc_offset \in {-8, 0, 8} :
          session = [rows |-> [id \in SessionIds |-> NoSession], now |-> 0,
                     utc_offset |-> utc_offset]
    /\ log = <<>>
    /\ result = NoResult
    /\ pc = "store"
    /\ file = [kind |-> "empty", table |-> Frame(<<>>, <<>>, <<>>)]
    /\ frames = <<>>
    /\ df = 0
    /\ df_clean = 0
    /\ calc_df = 0
    /\ columns = <<>>
    /\ columns_map = [f \in {} |-> None]
    /\ validation = NoValidation
    /\ error = NoError
    /\ response = NoResponse
    /\ requests = NoRequests

StoreSession ==
    \E session_id \in SessionIds, data \in SessionDicts :
        /\ pc = "store"
        /\ Len(log) < MaxStores
        /\ \E out \in {store_session(session, session_id, data)} :
              /\ session' = out.db
              /\ result' = [fn |-> "store_session", args |-> <<session_id, data>>,
                            value |-> out.value]
        /\ log' = Append(log, [session_id |-> session_id, data |-> data, at |-> session.now])
        /\ UNCHANGED <<file, frames, df, df_clean, calc_df, columns, columns_map, validation,
                       error, response, requests, pc>>

GetSession ==
    \E session_id \in SessionIds :
        /\ pc = "store"
        /\ result' = [fn |-> "get_session", args |-> <<session_id>>,
                      value |-> get_session(session, session_id)]
        /\ UNCHANGED <<file, frames, df, df_clean, calc_df, columns, columns_map, validation,
                       log, error, response, session, requests, pc>>

CleanupExpiredSessions ==
    /\ pc = "store"
    /\ session' = cleanup_expired_sessions(session)
    /\ result' = [fn |-> "cleanup_expired_sessions", args |-> <<>>, value |-> <<>>]
    /\ UNCHANGED <<file, frames, df, df_clean, calc_df, columns, columns_map, validation,
                   log, error, response, requests, pc>>

\* eight hours pass
ClockStep ==
    /\ pc = "store"
    /\ session.now < 8 * MaxClockSteps
    /\ session' = [session EXCEPT !.now = @ + 8]
    /\ UNCHANGED <<file, frames, df, df_clean, calc_df, columns, columns_map, validation,
                   log, error, response, result, requests, pc>>

StoreNext ==
    \/ StoreSession
    \/ GetSession
    \/ CleanupExpiredSessions
    \/ ClockStep

StoreSpec == StoreInit /\ [][StoreNext]_vars

\* the store_session calls made so far with the id
ClaimStores(session_id) == {k \in 1..Len(log) : log[k].session_id = session_id}

\* what a cache with a time to live of 24 hours returns for the id: the data
\* of the latest store_session call with it while less than 24 hours old, <<>>
\* otherwise
ClaimCached(session_id) ==
    IF ClaimStores(session_id) = {} THEN <<>>
    ELSE LET last == log[CHOOSE k \in ClaimStores(session_id) :
                             \A j \in ClaimStores(session_id) : j <= k]
         IN  IF session.now < last.at + 24 THEN <<last.data>> ELSE <<>>

\* C27: the session store is a cache with a time to live: after any calls of
\* store_session, get_session and cleanup_expired_sessions, get_session(id)
\* returns the data of the latest store_session(id, ...) exactly while that
\* store has not expired, and nothing for an id never stored or expired; and
\* cleanup_expired_sessions changes the result of no get_session.
C27_SessionStoreIsTtlCache ==
    /\ [](pc = "store" =>
             \A id \in SessionIds : get_session(session, id) = ClaimCached(id))
    /\ [][(pc = "store" /\ log' = log /\ session'.now = session.now) =>
             \A id \in SessionIds : get_session(session', id) = get_session(session, id)]_vars

\* C30: the upload stores a session if and only if it succeeds: once it has
\* responded, a success response comes with the session's row in the store,
\* and an error response comes with no row.
C30_SessionStoredIffSuccess ==
    pc = "responded" =>
        /\ response.success => session # NoSession
        /\ ~response.success => session = NoSession

====
